---- MODULE Spec2Model ----
(***************************************************************************)
(* A model of the conversion-and-editor-lifecycle orchestrator.            *)
(*                                                                         *)
(* These specifications share this module:                                 *)
(*   SpecEditor    - the editor operation queue, createEditorInstance and  *)
(*                   the CLOSE_EDITOR message handler (SpecEditorFair: the *)
(*                   same with the event loop's fairness);                 *)
(*   SpecOperation - handleDocumentOperation over the operation queue;     *)
(*   SpecConverter - the X2TConverter session (initialize, doInitialize,   *)
(*                   loadScript, convertDocument,                          *)
(*                   convertBinToDocumentAndDownload);                     *)
(*   SpecDocType   - the pure extension -> document type lookups;          *)
(*   SpecSanitize  - the pure sanitizeFileName;                            *)
(*   SpecDocument  - one convertDocument call in a ready session, with its *)
(*                   CSV path, executeConversion and readMediaFiles;       *)
(*   SpecSave      - handleSaveDocument, the bin-to-document conversion    *)
(*                   and saveWithFileSystemAPI;                            *)
(*   SpecWriteFile - handleWriteFile;                                      *)
(*   SpecSession   - the writeFile events of the successive editors of a   *)
(*                   session, with onAppReady;                             *)
(*   SpecTransfer  - the chunked transfers of RENDER_OFFICE messages.      *)
(* Each specification moves only its own variables; the others keep their  *)
(* initial values.                                                         *)
(*                                                                         *)
(* JavaScript scheduling is modelled as it runs: an async function runs    *)
(* synchronously up to an await; the continuation of an await is a         *)
(* microtask; microtasks run first-in first-out; a macrotask (a timer, a   *)
(* message handler) runs only when no microtask is pending.                *)
(***************************************************************************)
EXTENDS Integers, Sequences, FiniteSets, TLC

(***************************************************************************)
(* Bounds.                                                                 *)
(***************************************************************************)
\* createEditorInstance calls issued in one behaviour
MaxCalls == 3
\* CLOSE_EDITOR messages delivered in one behaviour
MaxClose == 2

Calls == 1..MaxCalls
\* promise 0 is the initial Promise.resolve(); promise c is the
\* operationPromise created by call c
Promises == 0..MaxCalls

VARIABLES
  editorOperationQueue, \* the tail promise of the queue
  promiseState,         \* promise -> "pending" | "resolved" | "rejected"
  promiseErr,           \* promise -> the call whose error rejected it (0: none)
  waiters,              \* promise -> continuations registered on it while pending
  microtasks,           \* the microtask queue: calls whose continuation is ready
  timers,               \* pending setTimeout(150) callbacks, in firing order
  pc,                   \* call -> position in queueEditorOperation / the operation
  awaited,              \* call -> the promise it awaited at `await editorOperationQueue`
  opResult,             \* call -> outcome of its operation(): "none" | "ok" | "throw"
  ran,                  \* call -> its operation body was started
  err,                  \* call -> the call whose error it was rejected with (0: none)
  windowEditor,         \* window.editor: 0 (undefined) or the instance
  constructed,          \* instance -> new DocsAPI.DocEditor returned it
  destroyCalls,         \* instance -> number of destroyEditor invocations on it
  lastDestroy,          \* the latest destroyEditor invocation
  closes,               \* CLOSE_EDITOR messages handled so far
  ceiLog,               \* call -> the steps of its operation body, in order
  appReady,             \* instance -> its onAppReady callback has fired
  received              \* instance -> the commands sent to it, in order

editorVars == <<editorOperationQueue, promiseState, promiseErr, waiters, microtasks,
                timers, pc, awaited, opResult, ran, err, windowEditor, constructed,
                destroyCalls, lastDestroy, closes, ceiLog, appReady, received>>

\* SpecOperation
VARIABLES
  hdoIn,     \* handleDocumentOperation call -> its options
  hdoPc,     \* call -> position in handleDocumentOperation
  hdoLog,    \* call -> what it did, in order
  hdoCreate  \* call -> the createEditorInstance call it made (0: none)

operationVars == <<hdoIn, hdoPc, hdoLog, hdoCreate>>

\* SpecDocType
VARIABLES
  dtExt,   \* the extension passed to getDocumentType
  dtOut,   \* "pending" before the call, then what the call produced
  dtFacade \* the same for the exported getDocumentType

docTypeVars == <<dtExt, dtOut, dtFacade>>

\* SpecConverter
VARIABLES
  hasScriptLoaded,      \* X2TConverter.hasScriptLoaded
  isReady,              \* X2TConverter.isReady
  x2tModule,            \* X2TConverter.x2tModule: 0 (null) or 1 (window.Module)
  initPromise,          \* X2TConverter.initPromise: 0 (null) or the boot whose promise it is
  boot,                 \* boot -> state of the promise doInitialize returned
  bootErr,              \* boot -> why its promise was rejected
  nBoots,               \* doInitialize invocations so far
  bootScripts,          \* script elements appended by doInitialize's loadScript
  scriptAppends,        \* script elements appended in all
  registrations,        \* assignments of Module.onRuntimeInitialized
  mkdirRuns,            \* createWorkingDirectories invocations
  windowModule,         \* window.Module is defined
  runtimeFired,         \* the runtime has signalled that it is initialized
  onRuntimeInitialized, \* the boot whose callback is registered (0: none)
  timerArmed,           \* boot -> its INIT_TIMEOUT timer is pending
  ckind,                \* caller -> the exported operation it called
  cext,                 \* caller -> the extension of its file (convertDocument)
  cpc,                  \* caller -> position
  cwait,                \* caller -> the boot promise initialize() returned (0: the module)
  cres,                 \* caller -> "none", "module", "ok" or the error it failed with
  fsOps                 \* caller -> virtual-filesystem and ccall operations it performed

converterVars == <<hasScriptLoaded, isReady, x2tModule, initPromise, boot, bootErr,
                   nBoots, bootScripts, scriptAppends, registrations, mkdirRuns,
                   windowModule, runtimeFired, onRuntimeInitialized, timerArmed,
                   ckind, cext, cpc, cwait, cres, fsOps>>

sessionVars == <<hasScriptLoaded, isReady, x2tModule, initPromise, boot, bootErr,
                 nBoots, bootScripts, scriptAppends, registrations, mkdirRuns,
                 windowModule, runtimeFired, onRuntimeInitialized, timerArmed>>

\* SpecSanitize
VARIABLES
  snIn,    \* the string passed to sanitizeFileName
  snCalls, \* sanitizeFileName calls made so far
  snOut,   \* after the first call: sanitizeFileName(snIn)
  snAgain  \* after the second call: sanitizeFileName(snOut)

sanitizeVars == <<snIn, snCalls, snOut, snAgain>>

\* window.XLSX is defined: the CSV library has been loaded
VARIABLES xlsxLoaded

\* SpecDocument
VARIABLES
  docName,      \* file.name
  docMimeExt,   \* getExtensions(file.type)[0], <<>> when there is none
  docEmpty,     \* the file has no bytes
  docPc,        \* position of the convertDocument call
  documentType, \* documentType
  docOps,       \* the calls made on the module and the document, in order
  docResult,    \* the ConversionResult returned
  docError      \* the error the call was rejected with

documentVars == <<docName, docMimeExt, docEmpty, docPc, documentType, docOps,
                  docResult, docError>>

\* SpecSave, SpecWriteFile and SpecSession
VARIABLES
  evEditor,    \* window.editor is defined
  tracked,     \* the document getDocmentObj() returns
  shown,       \* the document window.editor shows
  hasPicker,   \* window.showSaveFilePicker is defined
  media,       \* the module's media map
  commands,    \* the commands sent to window.editor, in order
  wfLog,       \* the writeFile events handled: what each did
  saveEvent,   \* the save event handled
  savePc,      \* position of the handleSaveDocument call
  saveTarget,  \* targetFormat
  saveOps,     \* the calls made on the module and the document, in order
  saveResult,  \* what convertBinToDocumentAndDownload returned
  persist,     \* the state of saveWithFileSystemAPI
  saveError,   \* the error handleSaveDocument was rejected with
  edConfig,    \* the config window.editor was built from, and which editor it is
  mediaUrls    \* the object URLs minted for media entries and not revoked

eventVars == <<evEditor, tracked, shown, hasPicker, media, commands, wfLog, saveEvent,
               savePc, saveTarget, saveOps, saveResult, persist, saveError,
               edConfig, mediaUrls>>

\* SpecTransfer
VARIABLES
  fileChunks, \* the chunk buffer of the RENDER_OFFICE handler
  delivered,  \* transfer -> how many of its chunks have been delivered
  opens       \* the opens the handler started: the chunks each was given, its state

transferVars == <<fileChunks, delivered, opens>>

\* what the actions of one specification leave alone
outsideClose ==
  <<docTypeVars, converterVars, sanitizeVars, documentVars, eventVars, xlsxLoaded,
    delivered, opens>>
outsideOperation ==
  <<docTypeVars, converterVars, sanitizeVars, documentVars, eventVars, xlsxLoaded,
    transferVars>>
outsideEditor == <<operationVars, outsideOperation>>
outsideDocType ==
  <<editorVars, operationVars, converterVars, sanitizeVars, documentVars, eventVars,
    xlsxLoaded, transferVars>>
outsideConverter ==
  <<editorVars, operationVars, docTypeVars, sanitizeVars, documentVars, eventVars,
    xlsxLoaded, transferVars>>
outsideSanitize ==
  <<editorVars, operationVars, docTypeVars, converterVars, documentVars, eventVars,
    xlsxLoaded, transferVars>>
outsideDocument ==
  <<editorVars, operationVars, docTypeVars, converterVars, sanitizeVars, eventVars,
    transferVars>>
outsideEvents ==
  <<editorVars, operationVars, docTypeVars, converterVars, sanitizeVars, documentVars,
    transferVars>>
outsideTransfer ==
  <<editorVars, operationVars, docTypeVars, converterVars, sanitizeVars, documentVars,
    eventVars, xlsxLoaded>>

\* an instance is named after the call that constructed it
Live(i) == constructed[i] /\ destroyCalls[i] = 0

\* the operation body of call c is in progress (between its start and its return)
InBody(c) == pc[c] \in {"wait1", "wait2"}

\* call c is between the start of its body and the settlement of its promise
InOperation(c) == pc[c] \in {"wait1", "wait2", "settle"}

InitEditor ==
  /\ editorOperationQueue = 0
  /\ promiseState = [p \in Promises |-> IF p = 0 THEN "resolved" ELSE "pending"]
  /\ promiseErr = [p \in Promises |-> 0]
  /\ waiters = [p \in Promises |-> <<>>]
  /\ microtasks = <<>>
  /\ timers = <<>>
  /\ pc = [c \in Calls |-> "unissued"]
  /\ awaited = [c \in Calls |-> 0]
  /\ opResult = [c \in Calls |-> "none"]
  /\ ran = [c \in Calls |-> FALSE]
  /\ err = [c \in Calls |-> 0]
  /\ windowEditor = 0
  /\ constructed = [c \in Calls |-> FALSE]
  /\ destroyCalls = [c \in Calls |-> 0]
  /\ lastDestroy = [inst |-> 0, by |-> 0, during |-> {}]
  /\ closes = 0
  /\ ceiLog = [c \in Calls |-> <<>>]
  /\ appReady = [c \in Calls |-> FALSE]
  /\ received = [c \in Calls |-> <<>>]

\* window.editor.destroyEditor(), invoked by `by` (a call, or 0 for CLOSE_EDITOR)
DestroyEditor(by) ==
  /\ destroyCalls' = [destroyCalls EXCEPT ![windowEditor] = @ + 1]
  /\ lastDestroy' = [inst |-> windowEditor, by |-> by,
                     during |-> {d \in Calls : d # by /\ InOperation(d)}]

\* queueEditorOperation(operation) up to `await editorOperationQueue`: the
\* continuation waits for the tail as it is now
queueEditorOperation(c) ==
  /\ pc[c] = "unissued"
  /\ \A d \in Calls : d < c => pc[d] # "unissued"
  /\ pc' = [pc EXCEPT ![c] = "awaitQueue"]
  /\ awaited' = [awaited EXCEPT ![c] = editorOperationQueue]
  /\ IF promiseState[editorOperationQueue] = "pending"
       THEN /\ waiters' = [waiters EXCEPT ![editorOperationQueue] = Append(@, c)]
            /\ UNCHANGED microtasks
       ELSE /\ microtasks' = Append(microtasks, c)
            /\ UNCHANGED waiters
  /\ UNCHANGED <<editorOperationQueue, promiseState, promiseErr, timers, opResult, ran,
                 err, windowEditor, constructed, destroyCalls, lastDestroy, closes,
                 ceiLog, appReady, received>>

\* createEditorInstance(config), called on its own
CreateEditorInstance(c) ==
  /\ queueEditorOperation(c)
  /\ UNCHANGED outsideEditor

\* `await editorOperationQueue` resumes on a rejected promise: the await throws
\* the earlier error out of queueEditorOperation, before the tail is replaced
QueueRejected(c) ==
  /\ microtasks # <<>> /\ Head(microtasks) = c
  /\ pc[c] = "awaitQueue"
  /\ promiseState[awaited[c]] = "rejected"
  /\ microtasks' = Tail(microtasks)
  /\ pc' = [pc EXCEPT ![c] = "failed"]
  /\ err' = [err EXCEPT ![c] = promiseErr[awaited[c]]]
  /\ UNCHANGED <<editorOperationQueue, promiseState, promiseErr, waiters, timers,
                 awaited, opResult, ran, windowEditor, constructed, destroyCalls,
                 lastDestroy, closes, ceiLog, appReady, received>>
  /\ UNCHANGED outsideEditor

\* the steps of the operation body up to its first await, with the reference
\* left in place when destroyEditor throws
Teardown_KeepReference(hasEditor, destroyThrows) ==
  IF ~hasEditor THEN <<"removeChildren">>
  ELSE IF destroyThrows THEN <<"destroyEditor", "console.warn", "removeChildren">>
  ELSE <<"destroyEditor">>

\* the steps of the operation body up to its first await: without an editor
\* the container is cleared and the second wait starts; a destroyEditor that
\* returns is followed by the first wait; one that throws skips that wait, so
\* the reference and the container are cleared at once
Teardown(hasEditor, destroyThrows) ==
  IF ~hasEditor THEN <<"removeChildren">>
  ELSE IF destroyThrows
    THEN <<"destroyEditor", "console.warn", "window.editor = undefined", "removeChildren">>
  ELSE <<"destroyEditor">>

\* `await editorOperationQueue` resumes on a resolved promise: the call installs
\* its own promise as the tail and runs operation() up to its first await
OperationStart(c, destroyThrows) ==
  /\ microtasks # <<>> /\ Head(microtasks) = c
  /\ pc[c] = "awaitQueue"
  /\ promiseState[awaited[c]] = "resolved"
  /\ microtasks' = Tail(microtasks)
  /\ editorOperationQueue' = c
  /\ ran' = [ran EXCEPT ![c] = TRUE]
  /\ timers' = Append(timers, c)
  /\ windowEditor = 0 => destroyThrows = FALSE
  /\ LET steps == Teardown(windowEditor # 0, destroyThrows)
         did(step) == \E n \in 1..Len(steps) : steps[n] = step
     IN /\ ceiLog' = [ceiLog EXCEPT ![c] = steps]
        /\ IF did("destroyEditor")
             THEN DestroyEditor(c)
             ELSE UNCHANGED <<destroyCalls, lastDestroy>>
        /\ windowEditor' = IF did("window.editor = undefined") THEN 0 ELSE windowEditor
        /\ pc' = [pc EXCEPT ![c] = IF did("removeChildren") THEN "wait2" ELSE "wait1"]
  /\ UNCHANGED <<promiseState, promiseErr, waiters, awaited, opResult, err,
                 constructed, closes, appReady, received>>
  /\ UNCHANGED outsideEditor

\* the first 150 ms timer fires: window.editor = undefined, the container is
\* cleared and the second 150 ms wait starts
AfterDestroyWait(c) ==
  /\ microtasks = <<>>
  /\ timers # <<>> /\ Head(timers) = c
  /\ pc[c] = "wait1"
  /\ windowEditor' = 0
  /\ ceiLog' = [ceiLog EXCEPT ![c] = @ \o <<"window.editor = undefined", "removeChildren">>]
  /\ timers' = Append(Tail(timers), c)
  /\ pc' = [pc EXCEPT ![c] = "wait2"]
  /\ UNCHANGED <<editorOperationQueue, promiseState, promiseErr, waiters, microtasks,
                 awaited, opResult, ran, err, constructed, destroyCalls, lastDestroy,
                 closes, appReady, received>>
  /\ UNCHANGED outsideEditor

\* a CLOSE_EDITOR message cancels the pending construction
Construct_Cancelled(c, ctorThrows) ==
  /\ closes = 0
  /\ microtasks = <<>>
  /\ timers # <<>> /\ Head(timers) = c
  /\ pc[c] = "wait2"
  /\ timers' = Tail(timers)
  /\ microtasks' = Append(microtasks, c)
  /\ pc' = [pc EXCEPT ![c] = "settle"]
  /\ ceiLog' = [ceiLog EXCEPT ![c] = Append(@, "new DocEditor")]
  /\ IF ctorThrows
       THEN /\ opResult' = [opResult EXCEPT ![c] = "throw"]
            /\ UNCHANGED <<windowEditor, constructed>>
       ELSE /\ opResult' = [opResult EXCEPT ![c] = "ok"]
            /\ windowEditor' = c
            /\ constructed' = [constructed EXCEPT ![c] = TRUE]
  /\ UNCHANGED <<editorOperationQueue, promiseState, promiseErr, waiters, awaited,
                 ran, err, destroyCalls, lastDestroy, closes, appReady, received>>
  /\ UNCHANGED outsideEditor

\* the second timer fires: window.editor = new DocsAPI.DocEditor(...), which may
\* throw; either way operation()'s promise settles and `await operation()` is
\* resumed by a microtask
Construct(c, ctorThrows) ==
  /\ microtasks = <<>>
  /\ timers # <<>> /\ Head(timers) = c
  /\ pc[c] = "wait2"
  /\ timers' = Tail(timers)
  /\ microtasks' = Append(microtasks, c)
  /\ pc' = [pc EXCEPT ![c] = "settle"]
  /\ ceiLog' = [ceiLog EXCEPT ![c] = Append(@, "new DocEditor")]
  /\ IF ctorThrows
       THEN /\ opResult' = [opResult EXCEPT ![c] = "throw"]
            /\ UNCHANGED <<windowEditor, constructed>>
       ELSE /\ opResult' = [opResult EXCEPT ![c] = "ok"]
            /\ windowEditor' = c
            /\ constructed' = [constructed EXCEPT ![c] = TRUE]
  /\ UNCHANGED <<editorOperationQueue, promiseState, promiseErr, waiters, awaited,
                 ran, err, destroyCalls, lastDestroy, closes, appReady, received>>
  /\ UNCHANGED outsideEditor

\* `await operation()` resumes: resolveOperation() or rejectOperation(error);
\* the continuations registered on the promise become microtasks
OperationSettle(c) ==
  /\ microtasks # <<>> /\ Head(microtasks) = c
  /\ pc[c] = "settle"
  /\ microtasks' = Tail(microtasks) \o waiters[c]
  /\ waiters' = [waiters EXCEPT ![c] = <<>>]
  /\ IF opResult[c] = "ok"
       THEN /\ promiseState' = [promiseState EXCEPT ![c] = "resolved"]
            /\ pc' = [pc EXCEPT ![c] = "done"]
            /\ UNCHANGED <<promiseErr, err>>
       ELSE /\ promiseState' = [promiseState EXCEPT ![c] = "rejected"]
            /\ promiseErr' = [promiseErr EXCEPT ![c] = c]
            /\ err' = [err EXCEPT ![c] = c]
            /\ pc' = [pc EXCEPT ![c] = "failed"]
  /\ UNCHANGED <<editorOperationQueue, timers, awaited, opResult, ran, windowEditor,
                 constructed, destroyCalls, lastDestroy>>
  /\ UNCHANGED <<closes, ceiLog, appReady, received>>
  /\ UNCHANGED outsideEditor

\* the CLOSE_EDITOR message handler: empties the chunk buffer, destroys
\* window.editor directly and leaves the reference in place
CloseEditor ==
  /\ microtasks = <<>>
  /\ closes < MaxClose
  /\ closes' = closes + 1
  /\ fileChunks' = <<>>
  /\ IF windowEditor # 0
       THEN DestroyEditor(0)
       ELSE UNCHANGED <<destroyCalls, lastDestroy>>
  /\ UNCHANGED <<editorOperationQueue, promiseState, promiseErr, waiters, microtasks,
                 timers, pc, awaited, opResult, ran, err, windowEditor, constructed,
                 ceiLog, appReady, received>>
  /\ UNCHANGED <<operationVars, outsideClose>>

NextEditor ==
  \/ \E c \in Calls : CreateEditorInstance(c)
  \/ \E c \in Calls : QueueRejected(c)
  \/ \E c \in Calls : \E destroyThrows \in BOOLEAN : OperationStart(c, destroyThrows)
  \/ \E c \in Calls : AfterDestroyWait(c)
  \/ \E c \in Calls : \E ctorThrows \in BOOLEAN : Construct(c, ctorThrows)
  \/ \E c \in Calls : OperationSettle(c)
  \/ CloseEditor


(***************************************************************************)
(* SpecOperation: handleDocumentOperation, whose createEditorInstance call *)
(* goes through the operation queue above.                                 *)
(***************************************************************************)
\* handleDocumentOperation calls made in one behaviour
MaxOps == 2

Ops == 1..MaxOps

InitOperation ==
  /\ hdoIn = [h \in Ops |-> [isNew |-> FALSE, hasTemplate |-> FALSE, hasFile |-> FALSE]]
  /\ hdoPc = [h \in Ops |-> "idle"]
  /\ hdoLog = [h \in Ops |-> <<>>]
  /\ hdoCreate = [h \in Ops |-> 0]

\* a new document is created from whatever the template table returns
DocumentData_NoGuard(isNew, hasTemplate, hasFile) ==
  IF isNew THEN "template"
  ELSE IF ~hasFile THEN "invalidFileObject"
  ELSE "convert"

\* how documentData is obtained.  hasTemplate: g_sEmpty_bin holds a template
\* under `.${fileType}`; hasFile: options.file is set
DocumentData(isNew, hasTemplate, hasFile) ==
  IF isNew
  THEN IF hasTemplate THEN "template" ELSE "unsupportedFileType"
  ELSE IF ~hasFile THEN "invalidFileObject"
  ELSE "convert"

\* the catch block shows the error and does not rethrow it
Caught_Swallowed(error) == <<error, "console.error", "alert">>

\* the catch block of handleDocumentOperation
Caught(error) == <<error, "console.error", "alert", "throw">>

\* the position a call is left in by what it did last
Outcome(steps) ==
  IF steps[Len(steps)] = "throw" THEN "failed" ELSE "done"

\* the createEditorInstance call that is made next
NextCall == CHOOSE c \in Calls : pc[c] = "unissued" /\ \A d \in Calls : d < c => pc[d] # "unissued"

\* handleDocumentOperation(options) up to its first await: of convertDocument
\* for a file, of createEditorInstance for a new document
HandleDocumentOperation(h, isNew, hasTemplate, hasFile) ==
  /\ hdoPc[h] = "idle"
  /\ \A g \in Ops : g < h => hdoPc[g] # "idle"
  /\ hdoIn' = [hdoIn EXCEPT ![h] =
                 [isNew |-> isNew, hasTemplate |-> hasTemplate, hasFile |-> hasFile]]
  /\ LET data == DocumentData(isNew, hasTemplate, hasFile)
     IN  CASE data = "template" ->
                /\ queueEditorOperation(NextCall)
                /\ hdoCreate' = [hdoCreate EXCEPT ![h] = NextCall]
                /\ hdoLog' = [hdoLog EXCEPT ![h] =
                               (IF hasTemplate THEN <<"emptyBin">> ELSE <<>>) \o
                               <<"createEditorInstance">>]
                /\ hdoPc' = [hdoPc EXCEPT ![h] = "create"]
           [] data = "convert" ->
                /\ hdoLog' = [hdoLog EXCEPT ![h] = <<"convertDocument">>]
                /\ hdoPc' = [hdoPc EXCEPT ![h] = "convert"]
                /\ UNCHANGED <<editorVars, hdoCreate>>
           [] OTHER ->
                /\ hdoLog' = [hdoLog EXCEPT ![h] = Caught(data)]
                /\ hdoPc' = [hdoPc EXCEPT ![h] = Outcome(Caught(data))]
                /\ UNCHANGED <<editorVars, hdoCreate>>
  /\ UNCHANGED outsideOperation

\* `await convertDocument(file)` resumes: with the conversion result, and
\* createEditorInstance is called, or with the conversion's error
DocumentConverted(h, converted) ==
  /\ hdoPc[h] = "convert"
  /\ IF converted
     THEN /\ queueEditorOperation(NextCall)
          /\ hdoCreate' = [hdoCreate EXCEPT ![h] = NextCall]
          /\ hdoLog' = [hdoLog EXCEPT ![h] = @ \o <<"documentData", "createEditorInstance">>]
          /\ hdoPc' = [hdoPc EXCEPT ![h] = "create"]
     ELSE /\ hdoLog' = [hdoLog EXCEPT ![h] = @ \o Caught("conversionFailed")]
          /\ hdoPc' = [hdoPc EXCEPT ![h] = Outcome(Caught("conversionFailed"))]
          /\ UNCHANGED <<editorVars, hdoCreate>>
  /\ UNCHANGED hdoIn
  /\ UNCHANGED outsideOperation

\* `await createEditorInstance(...)` resumes once the call has settled: the
\* function returns, or the catch block runs
EditorCreated(h) ==
  /\ hdoPc[h] = "create"
  /\ pc[hdoCreate[h]] \in {"done", "failed"}
  /\ IF pc[hdoCreate[h]] = "done"
     THEN /\ hdoPc' = [hdoPc EXCEPT ![h] = "done"]
          /\ UNCHANGED hdoLog
     ELSE /\ hdoLog' = [hdoLog EXCEPT ![h] = @ \o Caught("editorFailed")]
          /\ hdoPc' = [hdoPc EXCEPT ![h] = Outcome(Caught("editorFailed"))]
  /\ UNCHANGED <<hdoIn, hdoCreate, editorVars>>
  /\ UNCHANGED outsideOperation

\* the commands onAppReady sends for the config of call i: the media map, if
\* the config has one (a converted document has, a template has not), then the
\* binary payload
ReadyCommands(i) ==
  LET h == CHOOSE g \in Ops : hdoCreate[g] = i
  IN  (IF hdoIn[h].isNew
         THEN <<>>
         ELSE <<[command |-> "asc_setImageUrls", config |-> i]>>)
      \o <<[command |-> "asc_openDocument", config |-> i]>>

\* the onAppReady callback of instance i, which closes over the config of the
\* call that constructed it, fires once the editor in its frame has loaded (a
\* destroyed instance has no frame left): it sends through window.editor as
\* it is at that moment
OnAppReady(i) ==
  /\ microtasks = <<>>
  /\ Live(i) /\ ~appReady[i]
  /\ appReady' = [appReady EXCEPT ![i] = TRUE]
  /\ received' = IF windowEditor = 0
                   THEN received
                   ELSE [received EXCEPT ![windowEditor] = @ \o ReadyCommands(i)]
  /\ UNCHANGED <<editorOperationQueue, promiseState, promiseErr, waiters, microtasks,
                 timers, pc, awaited, opResult, ran, err, windowEditor, constructed,
                 destroyCalls, lastDestroy, closes, ceiLog>>
  /\ UNCHANGED outsideEditor

NextOperation ==
  \/ \E h \in Ops : \E isNew \in BOOLEAN : \E hasTemplate \in BOOLEAN :
       \E hasFile \in BOOLEAN : HandleDocumentOperation(h, isNew, hasTemplate, hasFile)
  \/ \E h \in Ops : \E converted \in BOOLEAN : DocumentConverted(h, converted)
  \/ \E h \in Ops : EditorCreated(h)
  \/ \E c \in Calls : QueueRejected(c)
  \/ \E c \in Calls : \E destroyThrows \in BOOLEAN : OperationStart(c, destroyThrows)
  \/ \E c \in Calls : AfterDestroyWait(c)
  \/ \E c \in Calls : \E ctorThrows \in BOOLEAN : Construct(c, ctorThrows)
  \/ \E c \in Calls : OperationSettle(c)
  \/ \E i \in Calls : OnAppReady(i)

(***************************************************************************)
(* Strings.  A string is the sequence of its characters, so that           *)
(* String.prototype.toLowerCase is computed and not assumed.               *)
(***************************************************************************)
LowerAlphabet == <<"a","b","c","d","e","f","g","h","i","j","k","l","m",
                   "n","o","p","q","r","s","t","u","v","w","x","y","z">>
UpperAlphabet == <<"A","B","C","D","E","F","G","H","I","J","K","L","M",
                   "N","O","P","Q","R","S","T","U","V","W","X","Y","Z">>

LowerChar(ch) ==
  IF \E i \in DOMAIN UpperAlphabet : UpperAlphabet[i] = ch
    THEN LowerAlphabet[CHOOSE i \in DOMAIN UpperAlphabet : UpperAlphabet[i] = ch]
    ELSE ch

UpperChar(ch) ==
  IF \E i \in DOMAIN LowerAlphabet : LowerAlphabet[i] = ch
    THEN UpperAlphabet[CHOOSE i \in DOMAIN LowerAlphabet : LowerAlphabet[i] = ch]
    ELSE ch

\* String.prototype.toLowerCase
ToLowerCase(s) == [i \in 1..Len(s) |-> LowerChar(s[i])]

S_docx == <<"d","o","c","x">>
S_doc  == <<"d","o","c">>
S_odt  == <<"o","d","t">>
S_rtf  == <<"r","t","f">>
S_txt  == <<"t","x","t">>
S_xlsx == <<"x","l","s","x">>
S_xls  == <<"x","l","s">>
S_ods  == <<"o","d","s">>
S_csv  == <<"c","s","v">>
S_pptx == <<"p","p","t","x">>
S_ppt  == <<"p","p","t">>
S_odp  == <<"o","d","p">>
S_zzz  == <<"z","z","z">>
S_pdf  == <<"p","d","f">>
S_empty == <<>>
S_constructor == <<"c","o","n","s","t","r","u","c","t","o","r">>
S_proto == <<"_","_","p","r","o","t","o","_","_">>
S_toString == <<"t","o","S","t","r","i","n","g">>
S_valueOf == <<"v","a","l","u","e","O","f">>

\* the property names every object literal inherits from Object.prototype
ObjectPrototypeKeys == {S_constructor, S_proto, S_toString, S_valueOf}

\* X2TConverter.DOCUMENT_TYPE_MAP: the own properties of the object literal
DOCUMENT_TYPE_MAP ==
  (S_docx :> "word") @@ (S_doc :> "word") @@ (S_odt :> "word") @@
  (S_rtf :> "word") @@ (S_txt :> "word") @@
  (S_xlsx :> "cell") @@ (S_xls :> "cell") @@ (S_ods :> "cell") @@
  (S_csv :> "cell") @@
  (S_pptx :> "slide") @@ (S_ppt :> "slide") @@ (S_odp :> "slide")

DocumentTypes == {"word", "cell", "slide"}

\* the extension is registered in the table (compared case-insensitively)
Registered(ext) == ToLowerCase(ext) \in DOMAIN DOCUMENT_TYPE_MAP

\* this.DOCUMENT_TYPE_MAP[key]: a property read on a plain object finds own
\* properties first and then the ones inherited from Object.prototype (all of
\* which are truthy functions or objects); otherwise it yields undefined
PropertyGet(key) ==
  IF key \in DOMAIN DOCUMENT_TYPE_MAP THEN DOCUMENT_TYPE_MAP[key]
  ELSE IF key \in ObjectPrototypeKeys THEN "inherited"
  ELSE "undefined"

\* X2TConverter.getDocumentType: the table's value, or "throw" for
\* Error(`Unsupported file format: ${extension}`)
getDocumentType(extension) ==
  LET docType == PropertyGet(ToLowerCase(extension))
  IN IF docType = "undefined" THEN "throw" ELSE docType

\* the exported getDocumentType(fileType): a chain of comparisons on the
\* lower-cased string, "null" standing for null
ExportedGetDocumentType(fileType) ==
  LET type == ToLowerCase(fileType)
  IN  IF type = S_docx \/ type = S_doc THEN "word"
      ELSE IF type = S_xlsx \/ type = S_xls \/ type = S_csv THEN "cell"
      ELSE IF type = S_pptx \/ type = S_ppt THEN "slide"
      ELSE "null"

(***************************************************************************)
(* SpecDocType: the two getDocumentType functions applied to one extension *)
(* string.                                                                 *)
(***************************************************************************)

\* every upper/lower-case spelling of s
CaseVariants(s) ==
  { [i \in 1..Len(s) |-> IF i \in U THEN UpperChar(s[i]) ELSE s[i]] :
      U \in SUBSET (1..Len(s)) }

\* the extensions tried: every spelling of every registered extension, some
\* unregistered ones, and names that Object.prototype defines
DocTypeInputs ==
  UNION { CaseVariants(k) : k \in DOMAIN DOCUMENT_TYPE_MAP }
    \cup CaseVariants(S_zzz) \cup CaseVariants(S_pdf) \cup {S_empty}
    \cup ObjectPrototypeKeys

InitDocType ==
  /\ dtExt = S_docx
  /\ dtOut = "pending"
  /\ dtFacade = "pending"

InitDocTypeInputs ==
  /\ dtExt \in DocTypeInputs
  /\ dtOut = "pending"
  /\ dtFacade = "pending"

ApplyGetDocumentType ==
  /\ dtOut = "pending"
  /\ dtOut' = getDocumentType(dtExt)
  /\ UNCHANGED <<dtExt, dtFacade>>
  /\ UNCHANGED outsideDocType

\* handleDocumentOperation: const _docType = getDocumentType(fileType)
ApplyExportedGetDocumentType ==
  /\ dtFacade = "pending"
  /\ dtFacade' = ExportedGetDocumentType(dtExt)
  /\ UNCHANGED <<dtExt, dtOut>>
  /\ UNCHANGED outsideDocType

(***************************************************************************)
(* SpecConverter: the X2TConverter singleton and the calls of its exported *)
(* operations.                                                             *)
(***************************************************************************)
\* calls of exported converter operations issued in one behaviour
MaxCallers == 2
\* doInitialize invocations (boot attempts) in one behaviour
MaxBoots == 2

Callers == 1..MaxCallers
Boots == 1..MaxBoots

\* the extensions of the files handed to convertDocument
ConvExts == {S_docx, S_zzz, S_constructor}

\* the exported operations: loadScript, initX2T, convertDocument (also reached
\* through handleDocumentOperation) and convertBinToDocumentAndDownload
Kinds == {"loadScript", "initX2T", "convertDocument", "convertBin"}

InitErrors == {"script", "missing", "timeout"}


InitConverter ==
  /\ hasScriptLoaded = FALSE
  /\ isReady = FALSE
  /\ x2tModule = 0
  /\ initPromise = 0
  /\ boot = [b \in Boots |-> "none"]
  /\ bootErr = [b \in Boots |-> "none"]
  /\ nBoots = 0
  /\ bootScripts = 0
  /\ scriptAppends = 0
  /\ registrations = 0
  /\ mkdirRuns = 0
  /\ windowModule = FALSE
  /\ runtimeFired = FALSE
  /\ onRuntimeInitialized = 0
  /\ timerArmed = [b \in Boots |-> FALSE]
  /\ ckind = [k \in Callers |-> "none"]
  /\ cext = [k \in Callers |-> S_empty]
  /\ cpc = [k \in Callers |-> "idle"]
  /\ cwait = [k \in Callers |-> 0]
  /\ cres = [k \in Callers |-> "none"]
  /\ fsOps = [k \in Callers |-> <<>>]

\* the session state of the spec's state machine
Ready == isReady /\ x2tModule # 0

BootPending(b) == boot[b] \in {"loadScript", "waitReady"}

\* initialize(): the branch taken.  "module": the cached module is returned;
\* "shared": the in-flight promise is returned; "boot": doInitialize is called
InitializePath_NoShare ==
  IF isReady /\ x2tModule # 0 THEN "module" ELSE "boot"

InitializePath_NoCache == "boot"

InitializePath ==
  IF isReady /\ x2tModule # 0 THEN "module"
  ELSE IF initPromise # 0 THEN "shared"
  ELSE "boot"

\* doInitialize after `await this.loadScript()` for boot b: window.Module is
\* looked up; if it is there the timeout is armed and the ready callback is
\* registered, else the promise is rejected (the rejection of the returned
\* promise is not caught by the try block, so initPromise stays)
AfterLoadScript(b, moduleDefined) ==
  IF moduleDefined
    THEN /\ boot' = [boot EXCEPT ![b] = "waitReady"]
         /\ timerArmed' = [timerArmed EXCEPT ![b] = TRUE]
         /\ onRuntimeInitialized' = b
         /\ registrations' = registrations + 1
         /\ UNCHANGED bootErr
    ELSE /\ boot' = [boot EXCEPT ![b] = "rejected"]
         /\ bootErr' = [bootErr EXCEPT ![b] = "missing"]
         /\ UNCHANGED <<timerArmed, onRuntimeInitialized, registrations>>

\* a caller enters an exported operation that starts with initialize()
\* (initX2T, convertDocument, convertBinToDocumentAndDownload)
CallInitialize(k, kind, ext) ==
  /\ cpc[k] = "idle"
  /\ \A j \in Callers : j < k => cpc[j] # "idle"
  /\ kind \in Kinds \ {"loadScript"}
  /\ (kind = "convertDocument") \/ (ext = S_empty)
  /\ ckind' = [ckind EXCEPT ![k] = kind]
  /\ cext' = [cext EXCEPT ![k] = ext]
  /\ cpc' = [cpc EXCEPT ![k] = "awaitInit"]
  /\ UNCHANGED <<cres, fsOps, isReady, x2tModule, mkdirRuns, windowModule,
                 runtimeFired, hasScriptLoaded>>
  /\ CASE InitializePath = "module" ->
            /\ cwait' = [cwait EXCEPT ![k] = 0]
            /\ UNCHANGED <<initPromise, boot, bootErr, nBoots, bootScripts,
                           scriptAppends, registrations, onRuntimeInitialized,
                           timerArmed>>
       [] InitializePath = "shared" ->
            /\ cwait' = [cwait EXCEPT ![k] = initPromise]
            /\ UNCHANGED <<initPromise, boot, bootErr, nBoots, bootScripts,
                           scriptAppends, registrations, onRuntimeInitialized,
                           timerArmed>>
       [] InitializePath = "boot" ->
            /\ nBoots < MaxBoots
            /\ nBoots' = nBoots + 1
            /\ initPromise' = nBoots + 1
            /\ cwait' = [cwait EXCEPT ![k] = nBoots + 1]
            /\ IF hasScriptLoaded
                 THEN /\ AfterLoadScript(nBoots + 1, windowModule)
                      /\ UNCHANGED <<bootScripts, scriptAppends>>
                 ELSE /\ boot' = [boot EXCEPT ![nBoots + 1] = "loadScript"]
                      /\ bootScripts' = bootScripts + 1
                      /\ scriptAppends' = scriptAppends + 1
                      /\ UNCHANGED <<bootErr, timerArmed, onRuntimeInitialized,
                                     registrations>>
  /\ UNCHANGED outsideConverter

\* the exported loadScript(): returns at once when the script has loaded, else
\* appends a script element and waits for its load or error event
CallLoadScript(k) ==
  /\ cpc[k] = "idle"
  /\ \A j \in Callers : j < k => cpc[j] # "idle"
  /\ ckind' = [ckind EXCEPT ![k] = "loadScript"]
  /\ IF hasScriptLoaded
       THEN /\ cpc' = [cpc EXCEPT ![k] = "done"]
            /\ cres' = [cres EXCEPT ![k] = "ok"]
            /\ UNCHANGED scriptAppends
       ELSE /\ cpc' = [cpc EXCEPT ![k] = "loadScript"]
            /\ scriptAppends' = scriptAppends + 1
            /\ UNCHANGED cres
  /\ UNCHANGED <<hasScriptLoaded, isReady, x2tModule, initPromise, boot, bootErr,
                 nBoots, bootScripts, registrations, mkdirRuns, windowModule,
                 runtimeFired, onRuntimeInitialized, timerArmed, cext, cwait, fsOps>>
  /\ UNCHANGED outsideConverter

\* script.onload of a script appended by the exported loadScript()
ScriptLoaded(k, definesModule) ==
  /\ cpc[k] = "loadScript"
  /\ hasScriptLoaded' = TRUE
  /\ windowModule' = (windowModule \/ definesModule)
  /\ cpc' = [cpc EXCEPT ![k] = "done"]
  /\ cres' = [cres EXCEPT ![k] = "ok"]
  /\ UNCHANGED <<isReady, x2tModule, initPromise, boot, bootErr, nBoots, bootScripts,
                 scriptAppends, registrations, mkdirRuns, runtimeFired,
                 onRuntimeInitialized, timerArmed, ckind, cext, cwait, fsOps>>
  /\ UNCHANGED outsideConverter

\* script.onerror of a script appended by the exported loadScript()
ScriptError(k) ==
  /\ cpc[k] = "loadScript"
  /\ cpc' = [cpc EXCEPT ![k] = "failed"]
  /\ cres' = [cres EXCEPT ![k] = "script"]
  /\ UNCHANGED <<sessionVars, ckind, cext, cwait, fsOps>>
  /\ UNCHANGED outsideConverter

\* script.onload of the script appended by boot b, and the rest of doInitialize
BootScriptLoaded(b, definesModule) ==
  /\ boot[b] = "loadScript"
  /\ hasScriptLoaded' = TRUE
  /\ windowModule' = (windowModule \/ definesModule)
  /\ AfterLoadScript(b, windowModule \/ definesModule)
  /\ UNCHANGED <<isReady, x2tModule, initPromise, nBoots, bootScripts, scriptAppends,
                 mkdirRuns, runtimeFired, ckind, cext, cpc, cwait, cres, fsOps>>
  /\ UNCHANGED outsideConverter

\* script.onerror of the script appended by boot b: loadScript rejects and the
\* catch block of doInitialize clears initPromise
BootScriptError(b) ==
  /\ boot[b] = "loadScript"
  /\ boot' = [boot EXCEPT ![b] = "rejected"]
  /\ bootErr' = [bootErr EXCEPT ![b] = "script"]
  /\ initPromise' = 0
  /\ UNCHANGED <<hasScriptLoaded, isReady, x2tModule, nBoots, bootScripts,
                 scriptAppends, registrations, mkdirRuns, windowModule, runtimeFired,
                 onRuntimeInitialized, timerArmed, ckind, cext, cpc, cwait, cres,
                 fsOps>>
  /\ UNCHANGED outsideConverter

\* the runtime signals that it is initialized, once; the registered callback,
\* if there is one, clears its timer, creates the working directories, stores
\* the module, sets isReady and resolves its promise
RuntimeInitialized ==
  /\ windowModule
  /\ ~runtimeFired
  /\ runtimeFired' = TRUE
  /\ IF onRuntimeInitialized # 0
       THEN /\ timerArmed' = [timerArmed EXCEPT ![onRuntimeInitialized] = FALSE]
            /\ mkdirRuns' = mkdirRuns + 1
            /\ x2tModule' = 1
            /\ isReady' = TRUE
            /\ boot' = [boot EXCEPT ![onRuntimeInitialized] =
                          IF @ = "waitReady" THEN "resolved" ELSE @]
       ELSE UNCHANGED <<timerArmed, mkdirRuns, x2tModule, isReady, boot>>
  /\ UNCHANGED <<hasScriptLoaded, initPromise, bootErr, nBoots, bootScripts,
                 scriptAppends, registrations, windowModule, onRuntimeInitialized,
                 ckind, cext, cpc, cwait, cres, fsOps>>
  /\ UNCHANGED outsideConverter

\* the INIT_TIMEOUT timer of boot b fires: rejects unless isReady
InitTimeout(b) ==
  /\ timerArmed[b]
  /\ timerArmed' = [timerArmed EXCEPT ![b] = FALSE]
  /\ IF ~isReady /\ boot[b] = "waitReady"
       THEN /\ boot' = [boot EXCEPT ![b] = "rejected"]
            /\ bootErr' = [bootErr EXCEPT ![b] = "timeout"]
       ELSE UNCHANGED <<boot, bootErr>>
  /\ UNCHANGED <<hasScriptLoaded, isReady, x2tModule, initPromise, nBoots, bootScripts,
                 scriptAppends, registrations, mkdirRuns, windowModule, runtimeFired,
                 onRuntimeInitialized, ckind, cext, cpc, cwait, cres, fsOps>>
  /\ UNCHANGED outsideConverter

\* what `await this.initialize()` yields to caller k: "ok", "err" or "pending"
InitOutcome_NoAwait(k) ==
  IF cwait[k] # 0 /\ boot[cwait[k]] = "rejected" THEN "err" ELSE "ok"

InitOutcome(k) ==
  IF cwait[k] = 0 THEN "ok"
  ELSE IF boot[cwait[k]] = "resolved" THEN "ok"
  ELSE IF boot[cwait[k]] = "rejected" THEN "err"
  ELSE "pending"

\* `await this.initialize()` resumes in caller k.  initX2T returns the module;
\* convertDocument goes on to getDocumentType, which throws outside the try
\* block; convertBinToDocumentAndDownload goes on to the conversion
InitializeReturns(k) ==
  /\ cpc[k] = "awaitInit"
  /\ InitOutcome(k) # "pending"
  /\ IF InitOutcome(k) = "err"
       THEN /\ cpc' = [cpc EXCEPT ![k] = "failed"]
            /\ cres' = [cres EXCEPT ![k] = bootErr[cwait[k]]]
       ELSE CASE ckind[k] = "initX2T" ->
                   /\ cpc' = [cpc EXCEPT ![k] = "done"]
                   /\ cres' = [cres EXCEPT ![k] = "module"]
              [] ckind[k] = "convertDocument" /\ getDocumentType(cext[k]) = "throw" ->
                   /\ cpc' = [cpc EXCEPT ![k] = "failed"]
                   /\ cres' = [cres EXCEPT ![k] = "unsupported"]
              [] OTHER ->
                   /\ cpc' = [cpc EXCEPT ![k] = "convert"]
                   /\ UNCHANGED cres
  /\ UNCHANGED <<sessionVars, ckind, cext, cwait, fsOps>>
  /\ UNCHANGED outsideConverter

\* the conversion proper of convertDocument (after `await file.arrayBuffer()`)
\* and of convertBinToDocumentAndDownload: the input and the params document
\* are written, main1 is called, and on return code 0 the output is read.
\* `this.x2tModule!.FS` throws a TypeError when x2tModule is null
Convert(k, returnCode) ==
  /\ cpc[k] = "convert"
  /\ IF x2tModule = 0
       THEN /\ returnCode = 0
            /\ cpc' = [cpc EXCEPT ![k] = "failed"]
            /\ cres' = [cres EXCEPT ![k] = "conversion"]
            /\ UNCHANGED fsOps
       ELSE IF returnCode = 0
         THEN /\ fsOps' = [fsOps EXCEPT ![k] =
                      <<"writeFile:input", "writeFile:params", "ccall", "readFile:output">>]
              /\ cpc' = [cpc EXCEPT ![k] = "done"]
              /\ cres' = [cres EXCEPT ![k] = "ok"]
         ELSE /\ fsOps' = [fsOps EXCEPT ![k] =
                      <<"writeFile:input", "writeFile:params", "ccall", "readFile:params">>]
              /\ cpc' = [cpc EXCEPT ![k] = "failed"]
              /\ cres' = [cres EXCEPT ![k] = "conversion"]
  /\ UNCHANGED <<sessionVars, ckind, cext, cwait>>
  /\ UNCHANGED outsideConverter

NextConverter ==
  \/ \E k \in Callers : \E kind \in Kinds : \E ext \in ConvExts \cup {S_empty} :
        CallInitialize(k, kind, ext)
  \/ \E k \in Callers : CallLoadScript(k)
  \/ \E k \in Callers : \E definesModule \in BOOLEAN : ScriptLoaded(k, definesModule)
  \/ \E k \in Callers : ScriptError(k)
  \/ \E b \in Boots : \E definesModule \in BOOLEAN : BootScriptLoaded(b, definesModule)
  \/ \E b \in Boots : BootScriptError(b)
  \/ RuntimeInitialized
  \/ \E b \in Boots : InitTimeout(b)
  \/ \E k \in Callers : InitializeReturns(k)
  \/ \E k \in Callers : \E returnCode \in {0, 1} : Convert(k, returnCode)

(***************************************************************************)
(* sanitizeFileName.  A string is a sequence of one-character strings.     *)
(***************************************************************************)
\* the longest file name drawn from SanitizeAlphabet
MaxNameLen == 4

\* sanitized.slice(0, 200)
MaxBaseLength == 200

S_bin == <<"b","i","n">>
S_file == <<"f","i","l","e">>

\* const illegalChars = /[/?<>\\:*|"]/g
IllegalChars == {"/", "?", "<", ">", "\\", ":", "*", "|", "\""}

\* const controlChars = /[\x00-\x1f\x80-\x9f]/g; the ones written here are
\* the control characters a string of the model can hold
ControlChars == {"\t", "\n", "\r", "\f"}

\* const unsafeChars = /[&'%!"{}[\]]/g
UnsafeChars == {"&", "'", "%", "!", "\"", "{", "}", "[", "]"}

\* the characters String.prototype.trim removes
WhiteSpace == {" ", "\t", "\n", "\r", "\f"}

\* s.replace(/[...]/g, ''): every character of the class is removed
RemoveChars(s, class) == SelectSeq(s, LAMBDA ch : ch \notin class)

\* s.replace(/^\.+$/, ''): a string made of dots only becomes empty
RemoveReserved(s) ==
  IF Len(s) > 0 /\ \A i \in 1..Len(s) : s[i] = "." THEN <<>> ELSE s

\* s.trim(): what lies between the first and the last character that is no
\* white space
Trim(s) ==
  LET kept == {i \in 1..Len(s) : s[i] \notin WhiteSpace}
  IN  IF kept = {} THEN <<>>
      ELSE SubSeq(s, CHOOSE i \in kept : \A j \in kept : i <= j,
                     CHOOSE i \in kept : \A j \in kept : j <= i)

\* s.split(sep): the pieces between the occurrences of the character sep
RECURSIVE Split(_, _)
Split(s, sep) ==
  IF \A i \in 1..Len(s) : s[i] # sep
  THEN <<s>>
  ELSE LET i == CHOOSE j \in 1..Len(s) :
                  s[j] = sep /\ \A h \in 1..(j - 1) : s[h] # sep
       IN  <<SubSeq(s, 1, i - 1)>> \o Split(SubSeq(s, i + 1, Len(s)), sep)

\* parts.join(sep)
RECURSIVE Join(_, _)
Join(parts, sep) ==
  IF parts = <<>> THEN <<>>
  ELSE IF Len(parts) = 1 THEN parts[1]
  ELSE parts[1] \o <<sep>> \o Join(Tail(parts), sep)

\* s.slice(0, n)
SliceTo(s, n) == SubSeq(s, 1, IF Len(s) < n THEN Len(s) ELSE n)

sanitizeFileName(input) ==
  IF Trim(input) = <<>>
  THEN S_file \o <<".">> \o S_bin
  ELSE LET parts == Split(input, ".")
           last == parts[Len(parts)]
           ext == IF last = <<>> THEN S_bin ELSE last
           name == Join(SubSeq(parts, 1, Len(parts) - 1), ".")
           replaced == RemoveChars(RemoveReserved(
                         RemoveChars(RemoveChars(name, IllegalChars),
                                     ControlChars)), UnsafeChars)
           sanitized == IF Trim(replaced) = <<>> THEN S_file ELSE Trim(replaced)
       IN  SliceTo(sanitized, MaxBaseLength) \o <<".">> \o ext

\* the characters the short inputs are made of: a letter, the separator,
\* an illegal, an unsafe, a blank and a control character
SanitizeAlphabet == {"a", ".", "/", "&", " ", "\t"}

\* every string of at most MaxNameLen characters of the alphabet, and names
\* whose part before the extension reaches the length limit
SanitizeInputs ==
  UNION {[1..n -> SanitizeAlphabet] : n \in 0..MaxNameLen}
  \cup {[i \in 1..n |-> "a"] \o mid \o <<".", "a">> :
          n \in {MaxBaseLength - 1, MaxBaseLength},
          mid \in {<<>>, <<"a">>, <<" ", "a">>, <<"/", "a">>}}

\* no sanitizeFileName call is under way
InitSanitize ==
  /\ snIn = <<>>
  /\ snCalls = 0
  /\ snOut = <<>>
  /\ snAgain = <<>>

InitSanitizeInputs ==
  /\ snIn \in SanitizeInputs
  /\ snCalls = 0
  /\ snOut = <<>>
  /\ snAgain = <<>>

\* sanitizeFileName(input)
ApplySanitize ==
  /\ snCalls = 0
  /\ snCalls' = 1
  /\ snOut' = sanitizeFileName(snIn)
  /\ UNCHANGED <<snIn, snAgain>>
  /\ UNCHANGED outsideSanitize

\* sanitizeFileName applied to a name it returned
ApplySanitizeAgain ==
  /\ snCalls = 1
  /\ snCalls' = 2
  /\ snAgain' = sanitizeFileName(snOut)
  /\ UNCHANGED <<snIn, snOut>>
  /\ UNCHANGED outsideSanitize

NextSanitize ==
  \/ ApplySanitize
  \/ ApplySanitizeAgain

(***************************************************************************)
(* convertDocument, from the point where `await this.initialize()` has     *)
(* resolved: this.x2tModule is the module.  Each action is one synchronous *)
(* run of the function between two awaits.                                 *)
(***************************************************************************)
S_working == <<"/","w","o","r","k","i","n","g","/">>

\* '/working/params.xml'
ParamsPath == S_working \o <<"p","a","r","a","m","s",".","x","m","l">>

\* '/working/media/'
MediaDir == S_working \o <<"m","e","d","i","a","/">>

\* the key prefix `media/`
MediaKeyPrefix == <<"m","e","d","i","a","/">>

\* file.name of the files passed to convertDocument
DocumentNames ==
  {<<"a", ".">> \o e : e \in {S_csv, <<"C","s","V">>, S_docx, S_txt, S_zzz}}
  \cup {S_csv, <<".">> \o S_csv, <<"a","&",".">> \o S_csv}

\* getExtensions(file.type)[0]: the first extension the MIME type library
\* lists for file.type, empty when it lists none
MimeExtensions == {<<>>, S_csv, S_docx}

\* the files FS.readdir can list in /working/media besides '.' and '..'
MediaFiles == <<<<"i","1">>, <<"i","2">>>>

\* what FS.readdir('/working/media/') returns; <<>> stands for a throw (a
\* listing that succeeds holds at least '.' and '..')
MediaListings ==
  {<<>>} \cup
  {<<<<".">>, <<".", ".">>>> \o SubSeq(MediaFiles, 1, n) : n \in 0..Len(MediaFiles)}

\* what main1 can return
ReturnCodes == {0, 1, 88}

NoError == [message |-> "none", code |-> 0, wrappedBy |-> <<>>]

\* new Error(`${prefix}: ${error.message}`)
Wrap(error, prefix) == [error EXCEPT !.wrappedBy = <<prefix>> \o @]

NoResult == [fileName |-> <<>>, type |-> "none", media |-> <<>>]

\* getExtensions(file?.type)[0] || fileName.split('.').pop() || ''
FileExt(fileName, mimeExt) ==
  IF mimeExt # <<>> THEN mimeExt
  ELSE LET parts == Split(fileName, ".") IN parts[Len(parts)]

\* fileName.toLowerCase().endsWith('.csv')
EndsWithCsv(fileName) ==
  /\ Len(fileName) >= 4
  /\ SubSeq(ToLowerCase(fileName), Len(fileName) - 3, Len(fileName)) = <<".">> \o S_csv

\* fileName.replace(/\.csv$/i, '.xlsx') left the name as it was
convertCsvToXlsxName_Unchanged(fileName) == fileName

\* the name of the File convertCsvToXlsx returns:
\* fileName.replace(/\.csv$/i, '.xlsx')
convertCsvToXlsxName(fileName) ==
  LET n == Len(fileName)
  IN  IF n >= 4 /\ ToLowerCase(SubSeq(fileName, n - 3, n)) = <<".">> \o S_csv
      THEN SubSeq(fileName, 1, n - 4) \o <<".">> \o S_xlsx
      ELSE fileName

\* a diagnostic read that fails replaces the conversion error
executeConversion_Masked(returnCode, diagnosticOk) ==
  [ops |-> <<[op |-> "ccall", path |-> ParamsPath, out |-> returnCode]>> \o
           (IF returnCode # 0
            THEN <<[op |-> "readFile", path |-> ParamsPath, out |-> diagnosticOk]>>
            ELSE <<>>),
   error |-> IF returnCode # 0
             THEN IF diagnosticOk
                  THEN [message |-> "Conversion failed with code",
                        code |-> returnCode, wrappedBy |-> <<>>]
                  ELSE [message |-> "FS error", code |-> 0, wrappedBy |-> <<>>]
             ELSE NoError]

\* executeConversion(paramsPath): the calls it makes on the module and the
\* error it throws; diagnosticOk is whether FS.readFile(paramsPath) succeeds
executeConversion(returnCode, diagnosticOk) ==
  [ops |-> <<[op |-> "ccall", path |-> ParamsPath, out |-> returnCode]>> \o
           (IF returnCode # 0
            THEN <<[op |-> "readFile", path |-> ParamsPath, out |-> diagnosticOk]>>
            ELSE <<>>),
   error |-> IF returnCode # 0
             THEN [message |-> "Conversion failed with code",
                   code |-> returnCode, wrappedBy |-> <<>>]
             ELSE NoError]

\* one unreadable file ends the loop: the files after it are not read
readMediaFiles_Abort(listing, unreadable) ==
  LET files == SelectSeq(listing, LAMBDA f : f # <<".">> /\ f # <<".", ".">>)
      upTo == IF \E i \in 1..Len(files) : files[i] \in unreadable
              THEN (CHOOSE i \in 1..Len(files) :
                      /\ files[i] \in unreadable
                      /\ \A j \in 1..(i - 1) : files[j] \notin unreadable)
              ELSE Len(files)
      read == {files[i] : i \in 1..upTo} \ unreadable
  IN  [ops |-> <<[op |-> "readdir", path |-> MediaDir, out |-> listing]>> \o
               [i \in 1..upTo |->
                  [op |-> "readFile", path |-> MediaDir \o files[i],
                   out |-> files[i] \notin unreadable]],
       media |-> [key \in {MediaKeyPrefix \o f : f \in read} |->
                    [blobOf |-> MediaDir \o SubSeq(key, Len(MediaKeyPrefix) + 1, Len(key))]],
       threw |-> FALSE]

\* a listing failure is thrown to the caller
readMediaFiles_Propagate(listing, unreadable) ==
  LET files == SelectSeq(listing, LAMBDA f : f # <<".">> /\ f # <<".", ".">>)
      read == {files[i] : i \in 1..Len(files)} \ unreadable
  IN  [ops |-> <<[op |-> "readdir", path |-> MediaDir, out |-> listing]>> \o
               [i \in 1..Len(files) |->
                  [op |-> "readFile", path |-> MediaDir \o files[i],
                   out |-> files[i] \notin unreadable]],
       media |-> [key \in {MediaKeyPrefix \o f : f \in read} |->
                    [blobOf |-> MediaDir \o SubSeq(key, Len(MediaKeyPrefix) + 1, Len(key))]],
       threw |-> listing = <<>>]

\* readMediaFiles(): the calls it makes on the virtual filesystem, the map it
\* returns and whether it throws.  listing is what FS.readdir returns (<<>>:
\* it throws) and is logged as the outcome of the readdir call; unreadable
\* are the files for which FS.readFile throws; the object URL minted for a
\* file is named after the file
readMediaFiles(listing, unreadable) ==
  LET files == SelectSeq(listing, LAMBDA f : f # <<".">> /\ f # <<".", ".">>)
      read == {files[i] : i \in 1..Len(files)} \ unreadable
  IN  [ops |-> <<[op |-> "readdir", path |-> MediaDir, out |-> listing]>> \o
               [i \in 1..Len(files) |->
                  [op |-> "readFile", path |-> MediaDir \o files[i],
                   out |-> files[i] \notin unreadable]],
       media |-> [key \in {MediaKeyPrefix \o f : f \in read} |->
                    [blobOf |-> MediaDir \o SubSeq(key, Len(MediaKeyPrefix) + 1, Len(key))]],
       threw |-> FALSE]

\* the params document is written only after the entry point was called
ConvertStaged_ParamsLate(inputName, content, returnCode, diagnosticOk, listing, unreadable) ==
  LET inputPath == S_working \o inputName
      outputPath == inputPath \o <<".">> \o S_bin
      run == executeConversion(returnCode, diagnosticOk)
      extracted == readMediaFiles(listing, unreadable)
      staged == <<[op |-> "writeFile", path |-> inputPath, out |-> content]>> \o
                run.ops \o
                <<[op |-> "writeFile", path |-> ParamsPath,
                   out |-> [from |-> inputPath, to |-> outputPath]]>>
  IN  IF run.error # NoError
      THEN [ops |-> staged, error |-> run.error, media |-> <<>>]
      ELSE [ops |-> staged \o
                    <<[op |-> "readFile", path |-> outputPath, out |-> TRUE]>> \o
                    extracted.ops,
            error |-> NoError,
            media |-> extracted.media]

\* the part the CSV path and the standard path of convertDocument share:
\* write the input and the params document, run the conversion, read the
\* output and the media.  inputName is the sanitized name of the staged file
\* and content what is written under it
ConvertStaged(inputName, content, returnCode, diagnosticOk, listing, unreadable) ==
  LET inputPath == S_working \o inputName
      outputPath == inputPath \o <<".">> \o S_bin
      staged == <<[op |-> "writeFile", path |-> inputPath, out |-> content],
                  [op |-> "writeFile", path |-> ParamsPath,
                   out |-> [from |-> inputPath, to |-> outputPath]]>>
      run == executeConversion(returnCode, diagnosticOk)
      extracted == readMediaFiles(listing, unreadable)
  IN  IF run.error # NoError
      THEN [ops |-> staged \o run.ops, error |-> run.error, media |-> <<>>]
      ELSE [ops |-> staged \o run.ops \o
                    <<[op |-> "readFile", path |-> outputPath, out |-> TRUE]>> \o
                    extracted.ops,
            error |-> IF extracted.threw
                      THEN [message |-> "FS error", code |-> 0, wrappedBy |-> <<>>]
                      ELSE NoError,
            media |-> extracted.media]

\* no convertDocument call is under way
InitDocument ==
  /\ docName = <<>>
  /\ docMimeExt = <<>>
  /\ docEmpty = FALSE
  /\ docPc = "idle"
  /\ documentType = "none"
  /\ docOps = <<>>
  /\ docResult = NoResult
  /\ docError = NoError

\* convertDocument(file) was called and its initialize() has resolved
InitDocumentCalled ==
  /\ docName \in DocumentNames
  /\ docMimeExt \in MimeExtensions
  /\ docEmpty \in BOOLEAN
  /\ docPc = "called"
  /\ documentType = "none"
  /\ docOps = <<>>
  /\ docResult = NoResult
  /\ docError = NoError

\* convertDocument after `await this.initialize()`: the extension, the
\* document type (thrown errors leave the function: this is outside its try)
\* and the call of file.arrayBuffer()
DocumentStart ==
  /\ docPc = "called"
  /\ LET type == getDocumentType(FileExt(docName, docMimeExt))
     IN  IF type = "throw"
         THEN /\ docPc' = "failed"
              /\ docError' = [message |-> "Unsupported file format", code |-> 0,
                              wrappedBy |-> <<>>]
              /\ UNCHANGED documentType
         ELSE /\ docPc' = "arrayBuffer"
              /\ documentType' = type
              /\ UNCHANGED docError
  /\ UNCHANGED <<docName, docMimeExt, docEmpty, xlsxLoaded, docOps, docResult>>
  /\ UNCHANGED outsideDocument

\* an empty CSV file is taken like any other
CsvRefused_Never(empty) == NoError

\* if (data.length === 0) throw new Error('CSV file is empty')
CsvRefused(empty) ==
  IF empty THEN [message |-> "CSV file is empty", code |-> 0, wrappedBy |-> <<>>]
  ELSE NoError

\* convertDocument after `await file.arrayBuffer()`.  A CSV file goes on to
\* convertCsvToXlsx, which awaits loadXlsxLibrary (an empty one is refused
\* first); every other file is converted here
DocumentRead(returnCode, diagnosticOk, listing, unreadable) ==
  /\ docPc = "arrayBuffer"
  /\ IF ToLowerCase(FileExt(docName, docMimeExt)) = S_csv
     THEN IF CsvRefused(docEmpty) # NoError
          THEN /\ docPc' = "failed"
               /\ docError' = Wrap(CsvRefused(docEmpty), "Document conversion failed")
               /\ UNCHANGED <<docOps, docResult>>
          ELSE /\ docPc' = "loadXlsxLibrary"
               /\ docOps' = IF xlsxLoaded THEN docOps
                            ELSE Append(docOps, [op |-> "appendScript",
                                                 path |-> S_xlsx,
                                                 out |-> TRUE])
               /\ UNCHANGED <<docError, docResult>>
     ELSE LET sanitizedName == sanitizeFileName(docName)
              c == ConvertStaged(sanitizedName, "file", returnCode, diagnosticOk,
                                 listing, unreadable)
          IN  /\ docOps' = docOps \o c.ops
              /\ IF c.error # NoError
                 THEN /\ docPc' = "failed"
                      /\ docError' = Wrap(c.error, "Document conversion failed")
                      /\ UNCHANGED docResult
                 ELSE /\ docPc' = "done"
                      /\ docResult' = [fileName |-> sanitizedName,
                                       type |-> documentType, media |-> c.media]
                      /\ UNCHANGED docError
  /\ UNCHANGED <<docName, docMimeExt, docEmpty, xlsxLoaded, documentType>>
  /\ UNCHANGED outsideDocument

\* convertCsvToXlsx after `await this.loadXlsxLibrary()`: the library is
\* there, or its script loads or fails to; then the CSV text is parsed and
\* written as XLSX, and convertDocument awaits xlsxFile.arrayBuffer()
CsvToXlsx(libraryOk, parseOk) ==
  /\ docPc = "loadXlsxLibrary"
  /\ xlsxLoaded => libraryOk
  /\ xlsxLoaded' = libraryOk
  /\ IF libraryOk /\ parseOk
     THEN /\ docPc' = "xlsxFile"
          /\ UNCHANGED docError
     ELSE /\ docPc' = "failed"
          /\ docError' =
               Wrap(Wrap(Wrap([message |-> IF libraryOk THEN "CSV parse error"
                                           ELSE "Failed to load xlsx library",
                               code |-> 0, wrappedBy |-> <<>>],
                              "Failed to convert CSV to XLSX"),
                         "Failed to convert CSV file"),
                    "Document conversion failed")
  /\ UNCHANGED <<docName, docMimeExt, docEmpty, documentType, docOps, docResult>>
  /\ UNCHANGED outsideDocument

\* convertDocument after `await xlsxFile.arrayBuffer()`: the XLSX file is
\* staged and converted; the result carries the original file name
DocumentConvertXlsx(returnCode, diagnosticOk, listing, unreadable) ==
  /\ docPc = "xlsxFile"
  /\ LET sanitizedName == sanitizeFileName(convertCsvToXlsxName(docName))
         c == ConvertStaged(sanitizedName, "xlsx", returnCode, diagnosticOk,
                            listing, unreadable)
     IN  /\ docOps' = docOps \o c.ops
         /\ IF c.error # NoError
            THEN /\ docPc' = "failed"
                 /\ docError' = Wrap(Wrap(c.error, "Failed to convert CSV file"),
                                     "Document conversion failed")
                 /\ UNCHANGED docResult
            ELSE /\ docPc' = "done"
                 /\ docResult' = [fileName |-> sanitizeFileName(docName),
                                  type |-> documentType, media |-> c.media]
                 /\ UNCHANGED docError
  /\ UNCHANGED <<docName, docMimeExt, docEmpty, xlsxLoaded, documentType>>
  /\ UNCHANGED outsideDocument

NextDocument ==
  \/ DocumentStart
  \/ \E returnCode \in ReturnCodes : \E diagnosticOk \in BOOLEAN :
       \E listing \in MediaListings :
         \E unreadable \in SUBSET {MediaFiles[i] : i \in 1..Len(MediaFiles)} :
           DocumentRead(returnCode, diagnosticOk, listing, unreadable)
  \/ \E libraryOk \in BOOLEAN : \E parseOk \in BOOLEAN : CsvToXlsx(libraryOk, parseOk)
  \/ \E returnCode \in ReturnCodes : \E diagnosticOk \in BOOLEAN :
       \E listing \in MediaListings :
         \E unreadable \in SUBSET {MediaFiles[i] : i \in 1..Len(MediaFiles)} :
           DocumentConvertXlsx(returnCode, diagnosticOk, listing, unreadable)

(***************************************************************************)
(* The handlers of the editor's events: handleSaveDocument (with           *)
(* convertBinToDocumentAndDownload and saveWithFileSystemAPI) and          *)
(* handleWriteFile.  The converter session is ready: initialize() resolves *)
(* with the module.  An event handler is a macrotask and starts only when  *)
(* no continuation is pending on the microtask queue.                      *)
(***************************************************************************)
\* writeFile events handled in one behaviour
MaxWrites == 2

\* String.prototype.toUpperCase
ToUpperCase(s) == [i \in 1..Len(s) |-> UpperChar(s[i])]

\* c_oAscFileType2, the inverse of oAscFileType, at DOCX, XLSX, CSV and PDF
c_oAscFileType2 ==
  (65 :> ToUpperCase(S_docx)) @@ (257 :> ToUpperCase(S_xlsx)) @@
  (260 :> ToUpperCase(S_csv)) @@ (513 :> ToUpperCase(S_pdf))

\* the characters of the CSV texts and their UTF-8 bytes
Utf8 == ("a" :> 97) @@ ("," :> 44) @@ ("b" :> 98)

\* new TextEncoder().encode(text)
Utf8Encode(text) == [i \in 1..Len(text) |-> Utf8[text[i]]]

\* new TextDecoder('utf-8').decode(bytes)
Utf8Decode(bytes) ==
  [i \in 1..Len(bytes) |-> CHOOSE ch \in DOMAIN Utf8 : Utf8[ch] = bytes[i]]

\* the UTF-8 byte-order marker
BOM == <<239, 187, 191>>

\* convertCsvToXlsx: the text handed to XLSX.read, the marker removed
CsvTextOf(csvData) ==
  IF Len(csvData) >= 3 /\ SubSeq(csvData, 1, 3) = BOM
  THEN Utf8Decode(SubSeq(csvData, 4, Len(csvData)))
  ELSE Utf8Decode(csvData)

\* the CSV bytes without the marker
CsvOutput_NoBom(sheets) ==
  Utf8Encode(IF sheets = <<>> THEN <<>> ELSE sheets[1])

\* csvArray: the marker, then sheet_to_csv of workbook.Sheets[SheetNames[0]]
\* encoded.  A sheet is held as its CSV text; for a workbook without sheets
\* sheet_to_csv(undefined) is the empty text
CsvOutput(sheets) ==
  BOM \o Utf8Encode(IF sheets = <<>> THEN <<>> ELSE sheets[1])

\* a document: its file name, the CSV bytes it was opened from (none for
\* other files) and the sheets the editor holds for it at the save
Documents ==
  {[fileName |-> <<"a", ".">> \o S_csv,
    opened |-> Utf8Encode(<<"a", ",", "b">>),
    sheets |-> <<CsvTextOf(Utf8Encode(<<"a", ",", "b">>)), <<"b">>>>],
   [fileName |-> <<"a", ".", "C", "s", "V">>,
    opened |-> BOM \o Utf8Encode(<<"b", ",", "a">>),
    sheets |-> <<CsvTextOf(BOM \o Utf8Encode(<<"b", ",", "a">>))>>],
   [fileName |-> <<"a", ".">> \o S_xlsx, opened |-> <<>>,
    sheets |-> <<<<"a">>, <<"b">>>>],
   [fileName |-> <<"a", ".">> \o S_docx, opened |-> <<>>, sheets |-> <<>>]}

\* the files of the writeFile events
PastedFiles == {<<"i", "1">>, <<"p", "1">>}

\* the target is taken from the extension of the file name
TargetFormat_FromName(fileName, outputformat) ==
  IF EndsWithCsv(fileName) THEN ToUpperCase(S_csv)
  ELSE ToUpperCase(FileExt(fileName, <<>>))

\* the target is the one the editor reported, CSV documents included
TargetFormat_Reported(fileName, outputformat) ==
  IF outputformat \in DOMAIN c_oAscFileType2 THEN c_oAscFileType2[outputformat]
  ELSE <<>>

\* handleSaveDocument: targetFormat, <<>> standing for undefined
TargetFormat(fileName, outputformat) ==
  IF EndsWithCsv(fileName) THEN ToUpperCase(S_csv)
  ELSE IF outputformat \in DOMAIN c_oAscFileType2 THEN c_oAscFileType2[outputformat]
  ELSE <<>>

\* s.replace(/\.[^/.]+$/, ''): a last dot followed by one or more characters
\* other than '/' is removed together with them
StripExtension(s) ==
  LET dots == {i \in 1..Len(s) : s[i] = "."}
      last == CHOOSE i \in dots : \A j \in dots : j <= i
  IN  IF dots # {} /\ last < Len(s) /\ \A j \in (last + 1)..Len(s) : s[j] # "/"
      THEN SubSeq(s, 1, last - 1)
      ELSE s

\* the persistence step throws into the conversion that called it
saveWithFileSystemAPI_Throws(pickerAvailable) ==
  [persist |-> IF pickerAvailable THEN "picking" ELSE "downloaded",
   threw |-> TRUE]

\* saveWithFileSystemAPI up to its first await, as its caller sees it: without
\* showSaveFilePicker the file is downloaded through an anchor, else the
\* picker is shown; an async function never throws into its caller
saveWithFileSystemAPI(pickerAvailable) ==
  [persist |-> IF pickerAvailable THEN "picking" ELSE "downloaded",
   threw |-> FALSE]

\* a cancelled picker falls back to the anchor download
PickerEffects_Fallback(outcome, fileName) ==
  CASE outcome = "written" ->
         <<[op |-> "write", path |-> fileName, out |-> TRUE],
           [op |-> "message.success", path |-> fileName, out |-> TRUE]>>
    [] outcome = "cancelled" ->
         <<[op |-> "download", path |-> fileName, out |-> TRUE]>>
    [] OTHER -> <<>>

\* saveWithFileSystemAPI after `await showSaveFilePicker(...)`: what it does
\* to the user's files and screen.  "written": the stream is created, written
\* and closed and window.message.success is called; "cancelled": the
\* AbortError is caught and the function returns; "failed": any other error
\* is rethrown, nothing having been written
PickerEffects(outcome, fileName) ==
  CASE outcome = "written" ->
         <<[op |-> "write", path |-> fileName, out |-> TRUE],
           [op |-> "message.success", path |-> fileName, out |-> TRUE]>>
    [] OTHER -> <<>>

\* downloadFile(data, fileName), called by saveWithFileSystemAPI when there is
\* no picker
DownloadOps(save, fileName) ==
  IF save.persist = "downloaded"
  THEN <<[op |-> "download", path |-> fileName, out |-> TRUE]>>
  ELSE <<>>

SaveCallback == [command |-> "asc_onSaveCallback", data |-> [err_code |-> 0]]

\* window.editor?.sendCommand(...)
SendCommands(sent) == IF evEditor THEN commands \o sent ELSE commands

\* a continuation is on the microtask queue
MicrotaskPending ==
  \/ savePc \in {"initialize", "return"}
  \/ savePc = "loadXlsxLibrary" /\ xlsxLoaded

\* no editor has been built
NoConfig == [doc |-> 0, hasMedia |-> FALSE, media |-> <<>>]

\* documentData.media of the conversion made for document d: the map
\* readMediaFiles returned, each of its URLs minted for that document
ConversionMedia(d, listing) ==
  LET extracted == readMediaFiles(listing, {}).media
  IN  [key \in DOMAIN extracted |->
         [blobOf |-> extracted[key].blobOf, n |-> 0, doc |-> d]]

\* the configs handleDocumentOperation passes to createEditorInstance for
\* document d: a new document has no media (documentData.media is
\* undefined), a converted one has the map of its conversion
EditorConfigs(d) ==
  {[doc |-> d, hasMedia |-> FALSE, media |-> <<>>]} \cup
  {[doc |-> d, hasMedia |-> TRUE, media |-> ConversionMedia(d, listing)] :
     listing \in {<<>>, <<<<".">>, <<".", ".">>>> \o MediaFiles}}

\* no event is being handled
InitEvents ==
  /\ evEditor = FALSE
  /\ tracked = [fileName |-> <<>>, opened |-> <<>>, sheets |-> <<>>]
  /\ shown = tracked
  /\ hasPicker = FALSE
  /\ media = <<>>
  /\ commands = <<>>
  /\ wfLog = <<>>
  /\ saveEvent = [hasData |-> FALSE, outputformat |-> 0, fileName |-> <<>>]
  /\ savePc = "idle"
  /\ saveTarget = <<>>
  /\ saveOps = <<>>
  /\ saveResult = [fileName |-> <<>>, data |-> <<>>]
  /\ persist = "none"
  /\ saveError = NoError
  /\ edConfig = NoConfig
  /\ mediaUrls = {}

\* an editor shows the tracked document
InitEventsLive ==
  /\ evEditor \in BOOLEAN
  /\ edConfig \in (IF evEditor THEN EditorConfigs(1) ELSE {NoConfig})
  /\ mediaUrls = {edConfig.media[key] : key \in DOMAIN edConfig.media}
  /\ tracked \in Documents
  /\ shown = tracked
  /\ hasPicker \in BOOLEAN
  /\ media = <<>>
  /\ commands = <<>>
  /\ wfLog = <<>>
  /\ saveEvent = [hasData |-> FALSE, outputformat |-> 0, fileName |-> <<>>]
  /\ savePc = "idle"
  /\ saveTarget = <<>>
  /\ saveOps = <<>>
  /\ saveResult = [fileName |-> <<>>, data |-> <<>>]
  /\ persist = "none"
  /\ saveError = NoError

\* handleSaveDocument up to `await convertBinToDocumentAndDownload(...)`,
\* which runs up to its `await this.initialize()`; an event without data is
\* acknowledged at once.  outputformat is option.outputformat: a code of
\* c_oAscFileType2 or 1, which oAscFileType does not hold
HandleSaveDocument(hasData, outputformat) ==
  /\ savePc = "idle"
  /\ ~MicrotaskPending
  /\ saveEvent' = [hasData |-> hasData, outputformat |-> outputformat,
                   fileName |-> IF hasData THEN tracked.fileName ELSE <<>>]
  /\ IF hasData
     THEN /\ saveTarget' = TargetFormat(tracked.fileName, outputformat)
          /\ savePc' = "initialize"
          /\ UNCHANGED commands
     ELSE /\ commands' = SendCommands(<<SaveCallback>>)
          /\ savePc' = "done"
          /\ UNCHANGED saveTarget
  /\ UNCHANGED <<evEditor, tracked, shown, hasPicker, xlsxLoaded, media, wfLog, saveOps,
                 saveResult, persist, saveError, edConfig, mediaUrls>>
  /\ UNCHANGED outsideEvents

\* convertBinToDocumentAndDownload after `await this.initialize()`: the bin is
\* staged and converted.  A CSV target goes on to `await loadXlsxLibrary()`;
\* any other target is read (its bytes stand as 50 4B), handed to
\* saveWithFileSystemAPI and returned
ConvertBin(returnCode, diagnosticOk) ==
  /\ savePc = "initialize"
  /\ LET targetExt == IF saveTarget = <<>> THEN ToUpperCase(S_docx) ELSE saveTarget
         sanitizedBase == StripExtension(sanitizeFileName(saveEvent.fileName))
         binPath == S_working \o sanitizedBase \o <<".">> \o S_bin
         outputFileName == sanitizedBase \o <<".">> \o ToLowerCase(targetExt)
         isCsv == ToUpperCase(targetExt) = ToUpperCase(S_csv)
         toPath == S_working \o
                   (IF isCsv THEN sanitizedBase \o <<".">> \o S_xlsx ELSE outputFileName)
         staged == <<[op |-> "writeFile", path |-> binPath, out |-> "bin"],
                     [op |-> "writeFile", path |-> ParamsPath,
                      out |-> [from |-> binPath, to |-> toPath,
                               fontDir |-> ~isCsv /\ targetExt = ToUpperCase(S_pdf)]]>>
         run == executeConversion(returnCode, diagnosticOk)
         read == <<[op |-> "readFile", path |-> toPath, out |-> TRUE]>>
         save == saveWithFileSystemAPI(hasPicker)
     IN  IF run.error # NoError
         THEN /\ saveOps' = saveOps \o staged \o run.ops
              /\ savePc' = "failed"
              /\ saveError' = Wrap(run.error, "Bin to document conversion failed")
              /\ UNCHANGED <<saveResult, persist>>
         ELSE IF isCsv
         THEN /\ saveOps' = saveOps \o staged \o run.ops \o read \o
                            (IF xlsxLoaded THEN <<>>
                             ELSE <<[op |-> "appendScript", path |-> S_xlsx,
                                     out |-> TRUE]>>)
              /\ savePc' = "loadXlsxLibrary"
              /\ UNCHANGED <<saveResult, persist, saveError>>
         ELSE /\ saveOps' = saveOps \o staged \o run.ops \o read \o
                            DownloadOps(save, outputFileName)
              /\ persist' = save.persist
              /\ IF save.threw
                 THEN /\ savePc' = "failed"
                      /\ saveError' = Wrap([message |-> "save error", code |-> 0,
                                            wrappedBy |-> <<>>],
                                           "Bin to document conversion failed")
                      /\ UNCHANGED saveResult
                 ELSE /\ savePc' = "return"
                      /\ saveResult' = [fileName |-> outputFileName, data |-> <<80, 75>>]
                      /\ UNCHANGED saveError
  /\ UNCHANGED <<evEditor, tracked, shown, hasPicker, xlsxLoaded, media, commands, wfLog,
                 saveEvent, saveTarget, edConfig, mediaUrls>>
  /\ UNCHANGED outsideEvents

\* convertBinToDocumentAndDownload after `await this.loadXlsxLibrary()`: the
\* first sheet of the workbook becomes the CSV bytes, which are handed to
\* saveWithFileSystemAPI and returned
ConvertBinCsv(libraryOk) ==
  /\ savePc = "loadXlsxLibrary"
  /\ xlsxLoaded => libraryOk
  /\ xlsxLoaded' = libraryOk
  /\ LET sanitizedBase == StripExtension(sanitizeFileName(saveEvent.fileName))
         outputFileName == sanitizedBase \o <<".">> \o ToLowerCase(saveTarget)
         save == saveWithFileSystemAPI(hasPicker)
     IN  IF ~libraryOk
         THEN /\ savePc' = "failed"
              /\ saveError' = Wrap([message |-> "Failed to load xlsx library",
                                    code |-> 0, wrappedBy |-> <<>>],
                                   "Bin to document conversion failed")
              /\ UNCHANGED <<saveResult, persist, saveOps>>
         ELSE /\ persist' = save.persist
              /\ saveOps' = saveOps \o DownloadOps(save, outputFileName)
              /\ IF save.threw
                 THEN /\ savePc' = "failed"
                      /\ saveError' = Wrap([message |-> "save error", code |-> 0,
                                            wrappedBy |-> <<>>],
                                           "Bin to document conversion failed")
                      /\ UNCHANGED saveResult
                 ELSE /\ savePc' = "return"
                      /\ saveResult' = [fileName |-> outputFileName,
                                        data |-> CsvOutput(shown.sheets)]
                      /\ UNCHANGED saveError
  /\ UNCHANGED <<evEditor, tracked, shown, hasPicker, media, commands, wfLog, saveEvent,
                 saveTarget, edConfig, mediaUrls>>
  /\ UNCHANGED outsideEvents

\* handleSaveDocument after its await: the editor is told the save is complete
SaveReturn ==
  /\ savePc = "return"
  /\ savePc' = "done"
  /\ commands' = SendCommands(<<SaveCallback>>)
  /\ UNCHANGED <<evEditor, tracked, shown, hasPicker, xlsxLoaded, media, wfLog, saveEvent,
                 saveTarget, saveOps, saveResult, persist, saveError, edConfig,
                 mediaUrls>>
  /\ UNCHANGED outsideEvents

\* saveWithFileSystemAPI after `await showSaveFilePicker(...)`: the file is
\* written and closed ("written"), the user cancels (AbortError: "cancelled")
\* or the picker or the write fails and the error is rethrown ("failed")
PickerSettles(outcome) ==
  /\ persist = "picking"
  /\ ~MicrotaskPending
  /\ persist' = outcome
  /\ saveOps' = saveOps \o PickerEffects(outcome, saveResult.fileName)
  /\ UNCHANGED <<evEditor, tracked, shown, hasPicker, xlsxLoaded, media, commands, wfLog,
                 saveEvent, savePc, saveTarget, saveResult, saveError, edConfig,
                 mediaUrls>>
  /\ UNCHANGED outsideEvents

\* handleWriteFile(event).  kind is the shape of the event: "undefined" (no
\* event object), "noData" (no event.data), "badData" (event.data.data is no
\* Uint8Array), "badName" (event.data.file is no string) or "valid";
\* file is event.data.file of a valid event; hasCallback is whether
\* event.callback is a function
HandleWriteFile(kind, file, hasCallback) ==
  /\ Len(wfLog) < MaxWrites
  /\ ~MicrotaskPending
  /\ kind = "undefined" => ~hasCallback
  /\ (kind = "valid") = (file \in PastedFiles)
  /\ LET objectUrl == [blobOf |-> <<"w", "f">>, n |-> Len(wfLog) + 1,
                       doc |-> edConfig.doc]
         added == [key \in DOMAIN media \cup {MediaKeyPrefix \o file} |->
                     IF key = MediaKeyPrefix \o file THEN objectUrl ELSE media[key]]
         failure == [command |-> "asc_writeFileCallback",
                     data |-> [success |-> FALSE,
                               error |-> CASE kind = "undefined" -> "TypeError"
                                           [] kind = "badData" -> "Invalid image data: expected Uint8Array"
                                           [] OTHER -> "Invalid file name"]]
         sent == CASE kind = "valid" ->
                        <<[command |-> "asc_setImageUrls", data |-> [urls |-> added]],
                          [command |-> "asc_writeFileCallback",
                           data |-> [path |-> objectUrl, imgName |-> file]]>>
                   [] kind = "noData" -> <<>>
                   [] OTHER -> <<failure>>
     IN  /\ media' = IF kind = "valid" THEN added ELSE media
         /\ mediaUrls' = IF kind = "valid" THEN mediaUrls \cup {objectUrl}
                          ELSE mediaUrls
         /\ commands' = SendCommands(sent)
         /\ wfLog' = Append(wfLog,
                       [kind |-> kind, file |-> file, doc |-> edConfig.doc,
                        before |-> commands,
                        escaped |-> kind = "undefined",
                        called |-> hasCallback /\ kind \in {"badData", "badName"},
                        sent |-> IF evEditor THEN sent ELSE <<>>,
                        mediaBefore |-> media,
                        mediaAfter |-> IF kind = "valid" THEN added ELSE media])
  /\ UNCHANGED <<evEditor, tracked, shown, hasPicker, xlsxLoaded, saveEvent, savePc,
                 saveTarget, saveOps, saveResult, persist, saveError, edConfig>>
  /\ UNCHANGED outsideEvents

\* the onAppReady event of window.editor, raised once the editor has loaded:
\* the media of its config, if there is one, is pushed, then the document is
\* opened
AppReady ==
  /\ evEditor
  /\ \A i \in 1..Len(commands) : commands[i].command # "asc_openDocument"
  /\ ~MicrotaskPending
  /\ commands' = SendCommands(
       (IF edConfig.hasMedia
        THEN <<[command |-> "asc_setImageUrls", data |-> [urls |-> edConfig.media]]>>
        ELSE <<>>) \o
       <<[command |-> "asc_openDocument", data |-> [buf |-> edConfig.doc]]>>)
  /\ UNCHANGED <<evEditor, tracked, shown, hasPicker, xlsxLoaded, media, wfLog, saveEvent,
                 savePc, saveTarget, saveOps, saveResult, persist, saveError,
                 edConfig, mediaUrls>>
  /\ UNCHANGED outsideEvents

\* documents opened or created in one behaviour
MaxDocs == 2

\* the next document is opened or created, as the handlers of the editor's
\* events see it: setDocmentObj has tracked it, its conversion (if any) has
\* minted the URLs of config.media, and a createEditorInstance operation
\* (SpecEditor) has destroyed window.editor and built the next one from
\* config.  Nothing else of this state is written by createEditorInstance
EditorReplaced(config, document) ==
  /\ edConfig.doc < MaxDocs
  /\ ~MicrotaskPending
  /\ config \in EditorConfigs(edConfig.doc + 1)
  /\ edConfig' = config
  /\ tracked' = document
  /\ shown' = document
  /\ evEditor' = TRUE
  /\ commands' = <<>>
  /\ mediaUrls' = mediaUrls \cup {config.media[key] : key \in DOMAIN config.media}
  /\ UNCHANGED <<hasPicker, xlsxLoaded, media, wfLog, saveEvent, savePc, saveTarget,
                 saveOps, saveResult, persist, saveError>>
  /\ UNCHANGED outsideEvents

\* onCreateNew or the file input's onchange up to its first await:
\* setDocmentObj tracks the next document while window.editor still shows
\* the previous one (the editor is replaced several awaits later)
SetDocmentObj(document) ==
  /\ ~MicrotaskPending
  /\ tracked' = document
  /\ UNCHANGED <<evEditor, shown, hasPicker, xlsxLoaded, media, commands, wfLog,
                 saveEvent, savePc, saveTarget, saveOps, saveResult, persist,
                 saveError, edConfig, mediaUrls>>
  /\ UNCHANGED outsideEvents

NextSave ==
  \/ \E hasData \in BOOLEAN : \E outputformat \in DOMAIN c_oAscFileType2 \cup {1} :
       HandleSaveDocument(hasData, outputformat)
  \/ \E returnCode \in ReturnCodes : \E diagnosticOk \in BOOLEAN :
       ConvertBin(returnCode, diagnosticOk)
  \/ \E libraryOk \in BOOLEAN : ConvertBinCsv(libraryOk)
  \/ SaveReturn
  \/ \E outcome \in {"written", "cancelled", "failed"} : PickerSettles(outcome)
  \/ \E document \in Documents : SetDocmentObj(document)

NextWriteFile ==
  \E kind \in {"undefined", "noData", "badData", "badName", "valid"} :
    \E file \in PastedFiles \cup {<<>>} : \E hasCallback \in BOOLEAN :
      HandleWriteFile(kind, file, hasCallback)

\* the documents of a session and the files pasted into them
NextSession ==
  \/ \E file \in PastedFiles : \E hasCallback \in BOOLEAN :
       HandleWriteFile("valid", file, hasCallback)
  \/ AppReady
  \/ \E config \in UNION {EditorConfigs(d) : d \in 1..MaxDocs} :
       \E document \in Documents : EditorReplaced(config, document)

(***************************************************************************)
(* SpecTransfer: the RENDER_OFFICE message handler and its chunk buffer.   *)
(***************************************************************************)
\* chunked transfers made in one behaviour
MaxTransfers == 3
\* totalChunks of every transfer
TotalChunks == 2

InitTransfer ==
  /\ fileChunks = <<>>
  /\ delivered = [t \in 1..MaxTransfers |-> 0]
  /\ opens = <<>>

\* a RENDER_OFFICE message with the next chunk of transfer t, up to the
\* handler's first await: the chunk is pushed, and when the buffer holds at
\* least data.totalChunks chunks an open is started with the buffer as it is
RenderOffice(t) ==
  /\ delivered[t] < TotalChunks
  /\ \A u \in 1..MaxTransfers : u < t => delivered[u] = TotalChunks
  /\ delivered' = [delivered EXCEPT ![t] = @ + 1]
  /\ fileChunks' = Append(fileChunks, [transfer |-> t, chunkIndex |-> delivered[t] + 1])
  /\ opens' = IF Len(fileChunks') >= TotalChunks
                THEN Append(opens, [chunks |-> fileChunks', state |-> "opening"])
                ELSE opens
  /\ UNCHANGED outsideTransfer

\* the open started by the handler settles: handleDocumentOperation returned,
\* and the buffer is emptied, or one of the awaited steps (decodeFileChunked,
\* initX2T, handleDocumentOperation) rejected, and the handler ends there
OpenSettles(h, opened) ==
  /\ h \in 1..Len(opens)
  /\ opens[h].state = "opening"
  /\ opens' = [opens EXCEPT ![h].state = IF opened THEN "opened" ELSE "failed"]
  /\ fileChunks' = IF opened THEN <<>> ELSE fileChunks
  /\ UNCHANGED delivered
  /\ UNCHANGED outsideTransfer

NextTransfer ==
  \/ \E t \in 1..MaxTransfers : RenderOffice(t)
  \/ \E h \in 1..(MaxTransfers * TotalChunks) : \E opened \in BOOLEAN : OpenSettles(h, opened)

vars == <<editorVars, operationVars, docTypeVars, converterVars, sanitizeVars,
          documentVars, eventVars, xlsxLoaded,
          transferVars>>

\* the state after the page's modules have been evaluated
Init ==
  /\ InitEditor /\ InitOperation /\ InitDocType /\ InitConverter /\ InitSanitize
  /\ InitDocument /\ InitEvents /\ InitTransfer /\ xlsxLoaded = FALSE

\* the same, with getDocumentType's argument drawn from DocTypeInputs
InitDocTypeSpec ==
  /\ InitEditor /\ InitOperation /\ InitDocTypeInputs /\ InitConverter /\ InitSanitize
  /\ InitDocument /\ InitEvents /\ InitTransfer /\ xlsxLoaded = FALSE

SpecEditor == Init /\ [][NextEditor]_vars

\* the event loop runs every continuation that is ready and fires every timer
\* that is due; only the arrival of calls and messages is not forced
SpecEditorFair ==
  /\ SpecEditor
  /\ WF_vars(\E c \in Calls : QueueRejected(c))
  /\ WF_vars(\E c \in Calls : \E destroyThrows \in BOOLEAN :
               OperationStart(c, destroyThrows))
  /\ WF_vars(\E c \in Calls : AfterDestroyWait(c))
  /\ WF_vars(\E c \in Calls : \E ctorThrows \in BOOLEAN : Construct(c, ctorThrows))
  /\ WF_vars(\E c \in Calls : OperationSettle(c))

SpecOperation == Init /\ [][NextOperation]_vars

NextDocType == ApplyGetDocumentType \/ ApplyExportedGetDocumentType

SpecDocType == InitDocTypeSpec /\ [][NextDocType]_vars

SpecConverter == Init /\ [][NextConverter]_vars

\* the page's state, with sanitizeFileName's argument drawn from SanitizeInputs
InitSanitizeSpec ==
  /\ InitEditor /\ InitOperation /\ InitDocType /\ InitConverter /\ InitSanitizeInputs
  /\ InitDocument /\ InitEvents /\ InitTransfer /\ xlsxLoaded = FALSE

SpecSanitize == InitSanitizeSpec /\ [][NextSanitize]_vars

\* the page's state at a convertDocument call whose initialize() has resolved
InitDocumentSpec ==
  /\ InitEditor /\ InitOperation /\ InitDocType /\ InitConverter /\ InitSanitize
  /\ InitDocumentCalled /\ InitEvents /\ InitTransfer /\ xlsxLoaded \in BOOLEAN

SpecDocument == InitDocumentSpec /\ [][NextDocument]_vars

\* the page's state while an editor shows the tracked document
InitEventsSpec ==
  /\ InitEditor /\ InitOperation /\ InitDocType /\ InitConverter /\ InitSanitize
  /\ InitDocument /\ InitEventsLive /\ InitTransfer /\ xlsxLoaded \in BOOLEAN

\* the save event of the editor
SpecSave == InitEventsSpec /\ [][NextSave]_vars

\* the writeFile events of the editor
SpecWriteFile == InitEventsSpec /\ [][NextWriteFile]_vars

\* the valid writeFile events of the editors of a session
SpecSession == InitEventsSpec /\ [][NextSession]_vars

\* the chunked transfers of RENDER_OFFICE messages
SpecTransfer == Init /\ [][NextTransfer]_vars

(***************************************************************************)
(* The claims.                                                             *)
(***************************************************************************)
IssuedCalls == {c \in Calls : pc[c] # "unissued"}

\* C1: at every point at most one editor instance is constructed and not
\* destroyed, and once every issued createEditorInstance call has completed
\* (no CLOSE_EDITOR having been handled) exactly one live instance remains.
\* A second instance constructed while the first was never destroyed leaves
\* two live instances, so the first conjunct also states that destroyEditor
\* was invoked on the first before the second was constructed.
C1_AtMostOneLiveEditor ==
  /\ Cardinality({i \in Calls : Live(i)}) <= 1
  /\ (/\ IssuedCalls # {}
      /\ closes = 0
      /\ \A c \in IssuedCalls : pc[c] = "done")
       => Cardinality({i \in Calls : Live(i)}) = 1

\* C2: the queue is FIFO and mutually exclusive: the body of an operation has
\* started only if every earlier-issued operation has settled, and two bodies
\* are never in progress at once.
C2_FifoMutualExclusion ==
  /\ \A c, d \in Calls : (d < c /\ ran[c]) => pc[d] \in {"done", "failed"}
  /\ Cardinality({c \in Calls : InBody(c)}) <= 1

\* C3: a failed operation does not stall the queue: a createEditorInstance call
\* fails only with the error of its own body, which it has run; the error of an
\* earlier operation is never delivered to a later caller.
C3_FailureDoesNotStall ==
  \A c \in Calls : pc[c] = "failed" => (ran[c] /\ err[c] = c)

\* C4: every destroyEditor invocation is made by a queued lifecycle operation,
\* and none is made while another queued create is between its start and its
\* settlement.
C4_DestroySerialized ==
  lastDestroy.inst # 0 => (lastDestroy.by # 0 /\ lastDestroy.during = {})

\* C5: while the first boot is in flight, however many initialize() calls are
\* made, there is one doInitialize invocation, one script element, one ready
\* callback and no duplicate directory creation; when it succeeds the
\* directories were created once and every caller that shared its promise
\* got the module, none an initialization error.
C5_SingleBootShared ==
  /\ (nBoots >= 1 /\ BootPending(1))
       => (nBoots = 1 /\ bootScripts <= 1 /\ registrations <= 1 /\ mkdirRuns = 0)
  /\ boot[1] = "resolved"
       => /\ nBoots = 1 /\ bootScripts <= 1 /\ registrations = 1 /\ mkdirRuns = 1
          /\ x2tModule = 1
          /\ \A k \in Callers :
               (cwait[k] = 1 /\ cpc[k] # "awaitInit")
                 => /\ cres[k] \notin InitErrors
                    /\ (ckind[k] = "initX2T" => cres[k] = "module")

\* C5 witness: two initX2T callers shared the promise of the first boot and
\* both got the module
C5_Witness ==
  \E j, k \in Callers :
    /\ j # k
    /\ cwait[j] = 1 /\ cwait[k] = 1
    /\ cres[j] = "module" /\ cres[k] = "module"

\* C6: after initialize() has failed, for whatever reason, the shared promise
\* is cleared: initPromise is never the promise of a rejected boot.
C6_FailedInitCleared ==
  \A b \in Boots : boot[b] = "rejected" => initPromise # b

\* C7: Ready is terminal: a step taken in Ready leaves the session Ready with
\* the same module and starts no boot (no doInitialize, no script element, no
\* callback registration, no directory creation).
C7_ReadyTerminal ==
  [][Ready => /\ Ready'
              /\ x2tModule' = x2tModule
              /\ nBoots' = nBoots
              /\ bootScripts' = bootScripts
              /\ registrations' = registrations
              /\ mkdirRuns' = mkdirRuns]_vars

\* C7 witness: the session is Ready and an operation called after it became
\* Ready (its initialize() returned the cached module) has completed
C7_Witness ==
  /\ Ready
  /\ \E k \in Callers :
       ckind[k] \in {"initX2T", "convertDocument", "convertBin"}
         /\ cwait[k] = 0 /\ cpc[k] = "done"

ConvertKinds == {"convertDocument", "convertBin"}

\* C8: a conversion call is past initialize(), or has touched the virtual
\* filesystem or called the entry point, only if the session is Ready; and a
\* call whose initialization was rejected has failed with that error and has
\* touched nothing.
C8_ConvertOnlyWhenReady ==
  \A k \in Callers : ckind[k] \in ConvertKinds =>
    /\ (cpc[k] \in {"convert", "done"} \/ fsOps[k] # <<>>) => Ready
    /\ (cpc[k] # "awaitInit" /\ cwait[k] # 0 /\ boot[cwait[k]] = "rejected")
         => (cpc[k] = "failed" /\ cres[k] \in InitErrors /\ fsOps[k] = <<>>)

\* C8 witness: a convertDocument and a convertBinToDocumentAndDownload call; one
\* waited for a boot and then converted, the other failed with the boot's error
C8_Witness ==
  \E j, k \in Callers :
    /\ ckind[j] \in ConvertKinds /\ ckind[k] \in ConvertKinds /\ ckind[j] # ckind[k]
    /\ cwait[j] # 0 /\ cpc[j] = "done" /\ fsOps[j] # <<>>
    /\ cpc[k] = "failed" /\ cres[k] \in InitErrors

\* C9: a convertDocument call on a file whose extension is not registered in
\* the table never writes the input file or the params document and never
\* calls the entry point, and, its initialization having succeeded, it ends
\* only by failing with the unsupported-extension error.
C9_UnregisteredRejected ==
  \A k \in Callers :
    (ckind[k] = "convertDocument" /\ ~Registered(cext[k]))
      => /\ fsOps[k] = <<>>
         /\ (cpc[k] \in {"done", "failed"} /\ InitOutcome(k) = "ok")
              => (cpc[k] = "failed" /\ cres[k] = "unsupported")

\* C10: the lookup returns the table's value, one of word, cell and slide, for
\* a registered extension (compared case-insensitively) and raises the
\* unsupported-extension error for every other string.
C10_LookupTotal ==
  dtOut # "pending" =>
    IF Registered(dtExt)
      THEN dtOut = DOCUMENT_TYPE_MAP[ToLowerCase(dtExt)] /\ dtOut \in DocumentTypes
      ELSE dtOut = "throw"
\* C13: sanitizeFileName is idempotent: applied to a name it returned, it
\* returns that name again.
C13_SanitizeIdempotent ==
  snCalls = 2 => snAgain = snOut

\* C14: the name sanitizeFileName returns holds none of the characters
\* / ? < > \ : * | " and no control character.
C14_NoIllegalCharacter ==
  snCalls >= 1 =>
    \A i \in 1..Len(snOut) : snOut[i] \notin IllegalChars \cup ControlChars

\* the convertDocument call took the CSV path and returned a result
CsvDocumentDone ==
  docPc = "done" /\ ToLowerCase(FileExt(docName, docMimeExt)) = S_csv

\* the files written to the virtual filesystem other than the params document
StagedWrites ==
  {i \in 1..Len(docOps) : docOps[i].op = "writeFile" /\ docOps[i].path # ParamsPath}

\* C11: a convertDocument call that succeeds for a CSV file staged the
\* synthesized XLSX bytes (and never the CSV bytes), and its result carries
\* the sanitized original file name and the document type cell; when the
\* original name ends in .csv the staged file is named .xlsx and the result's
\* fileName is not that name.
C11_CsvResultKeepsName ==
  CsvDocumentDone =>
    /\ StagedWrites # {}
    /\ \A i \in StagedWrites : docOps[i].out = "xlsx"
    /\ docResult.fileName = sanitizeFileName(docName)
    /\ docResult.type = "cell"
    /\ EndsWithCsv(docName) =>
         \A i \in StagedWrites :
           LET path == docOps[i].path
           IN  /\ SubSeq(path, Len(path) - 4, Len(path)) = <<".">> \o S_xlsx
               /\ path # S_working \o docResult.fileName
               /\ EndsWithCsv(docResult.fileName)

C11_Witness ==
  /\ CsvDocumentDone
  /\ docMimeExt = <<>>
  /\ docName = <<"a", ".", "C", "s", "V">>
  /\ docResult.fileName = docName

\* the positions in the log of the FS.readdir call and of the reads of the
\* files under /working/media/
ReaddirOps == {i \in 1..Len(docOps) : docOps[i].op = "readdir"}
MediaReadOps(file) ==
  {i \in 1..Len(docOps) :
     docOps[i].op = "readFile" /\ docOps[i].path = MediaDir \o file}

\* C16: when the media directory was listed, the conversion succeeds whatever
\* reads fail: every listed entry other than '.' and '..' is read exactly
\* once, the result's map has the key media/<name> exactly for the entries
\* whose read succeeded, and no key for '.' or '..'.
C16_MediaPerReadableFile ==
  \A r \in ReaddirOps :
    LET listing == docOps[r].out
        listed == {listing[i] : i \in 1..Len(listing)} \ {<<".">>, <<".", ".">>}
        readOk(file) == \E i \in MediaReadOps(file) : docOps[i].out
    IN  listing # <<>> =>
          /\ docPc = "done"
          /\ \A file \in listed : Cardinality(MediaReadOps(file)) = 1
          /\ DOMAIN docResult.media =
               {MediaKeyPrefix \o file : file \in {f \in listed : readOk(f)}}
          /\ MediaKeyPrefix \o <<".">> \notin DOMAIN docResult.media
          /\ MediaKeyPrefix \o <<".", ".">> \notin DOMAIN docResult.media

C16_Witness ==
  /\ docPc = "done"
  /\ \E i \in MediaReadOps(MediaFiles[1]) : ~docOps[i].out
  /\ DOMAIN docResult.media = {MediaKeyPrefix \o MediaFiles[2]}

\* C17: when listing the media directory fails after the converter returned
\* 0 and the output was read, convertDocument still returns a result, its
\* media map is empty and no error is raised.
C17_ListingFailureSwallowed ==
  \A r \in ReaddirOps :
    docOps[r].out = <<>> =>
      /\ docPc = "done"
      /\ docError = NoError
      /\ DOMAIN docResult.media = {}

C17_Witness ==
  /\ docPc = "done"
  /\ \E r \in ReaddirOps : docOps[r].out = <<>>
  /\ docResult.type = "word"

\* the positions in the log of the calls of the converter's entry point
CcallOps == {i \in 1..Len(docOps) : docOps[i].op = "ccall"}

\* C18: when the entry point returned a non-zero code, convertDocument fails
\* with the conversion-failed error carrying that code and reads nothing but
\* the params document: the output path is never read, whether the
\* diagnostic read of the params document succeeds or fails.
C18_NonZeroCodeFails ==
  \A c \in CcallOps :
    docOps[c].out # 0 =>
      /\ docPc = "failed"
      /\ docError.message = "Conversion failed with code"
      /\ docError.code = docOps[c].out
      /\ \A i \in 1..Len(docOps) :
           docOps[i].op = "readFile" => docOps[i].path = ParamsPath

C18_Witness ==
  /\ docPc = "failed"
  /\ \E c \in CcallOps : docOps[c].out = 88
  /\ \E i \in 1..Len(docOps) :
       docOps[i].op = "readFile" /\ docOps[i].path = ParamsPath /\ ~docOps[i].out

\* C12: once handleSaveDocument has taken a save event carrying data while
\* the tracked file name ends in .csv (in any letter case), the target format
\* it passes on is CSV whatever output format code the event reports, and the
\* file the conversion produces is named *.csv.
C12_CsvOverride ==
  (saveEvent.hasData /\ EndsWithCsv(saveEvent.fileName)) =>
    /\ saveTarget = <<"C", "S", "V">>
    /\ saveResult.fileName # <<>> =>
         LET name == saveResult.fileName
         IN  /\ Len(name) > 4
             /\ SubSeq(name, Len(name) - 3, Len(name)) = <<".", "c", "s", "v">>

C12_Witness ==
  /\ savePc = "done"
  /\ saveEvent.hasData
  /\ saveEvent.outputformat = 257
  /\ saveEvent.fileName = <<"a", ".", "C", "s", "V">>
  /\ saveResult.fileName = <<"a", ".", "c", "s", "v">>
  /\ persist = "written"

\* C15: the bytes convertBinToDocumentAndDownload returns and persists for a
\* CSV target are EF BB BF followed by the encoded CSV text of the first
\* sheet alone, whether the CSV file opened began with the marker or not.
C15_CsvOutputHasBom ==
  (saveTarget = <<"C", "S", "V">> /\ saveResult.fileName # <<>>) =>
    LET data == saveResult.data
    IN  /\ Len(data) >= 3
        /\ SubSeq(data, 1, 3) = <<239, 187, 191>>
        /\ shown.sheets # <<>> =>
             SubSeq(data, 4, Len(data)) = Utf8Encode(shown.sheets[1])

C15_Witness ==
  /\ persist = "downloaded"
  /\ Len(shown.sheets) = 2
  /\ shown.opened # <<>>
  /\ SubSeq(shown.opened, 1, 3) # <<239, 187, 191>>
  /\ saveResult.data = <<239, 187, 191>> \o shown.opened

\* C19: once the conversion has handed its output to the persistence step
\* and handleSaveDocument has run on, the editor (window.editor, when it is
\* defined) has been sent asc_onSaveCallback with err_code 0 exactly once:
\* with the anchor download and with the save picker, whether the picker is
\* still open, the file was written, the user cancelled or the write failed.
C19_SaveAlwaysAcknowledged ==
  (persist # "none" /\ savePc # "return" /\ evEditor) =>
    Cardinality({i \in 1..Len(commands) :
                   /\ commands[i].command = "asc_onSaveCallback"
                   /\ commands[i].data.err_code = 0}) = 1

C19_Witness ==
  /\ evEditor
  /\ savePc = "done"
  /\ persist = "failed"
  /\ commands = <<SaveCallback>>

\* C20: every writeFile event that is not valid (no event, no payload, data
\* that is no byte array, a file name that is no string) is handled without
\* an exception leaving handleWriteFile, leaves the media map as it was, and
\* has the editor sent asc_writeFileCallback with success = false.
C20_WriteFileFailureReported ==
  \A i \in 1..Len(wfLog) :
    wfLog[i].kind # "valid" =>
      /\ ~wfLog[i].escaped
      /\ wfLog[i].mediaAfter = wfLog[i].mediaBefore
      /\ wfLog[i].doc > 0 =>
           \E j \in 1..Len(wfLog[i].sent) :
             /\ wfLog[i].sent[j].command = "asc_writeFileCallback"
             /\ wfLog[i].sent[j].data.success = FALSE

\* C21: a valid writeFile event pushes the running media map of the editor
\* session: the map sent with asc_setImageUrls holds every key pushed to that
\* editor before (by onAppReady from the conversion's media and by earlier
\* writeFile events) and the new key media/<file>, and the push is followed
\* by asc_writeFileCallback naming the new URL and the file.
C21_PushIsRunningMap ==
  \A i \in 1..Len(wfLog) :
    (wfLog[i].kind = "valid" /\ wfLog[i].doc > 0) =>
      /\ Len(wfLog[i].sent) = 2
      /\ wfLog[i].sent[1].command = "asc_setImageUrls"
      /\ MediaKeyPrefix \o wfLog[i].file \in DOMAIN wfLog[i].sent[1].data.urls
      /\ wfLog[i].sent[2].command = "asc_writeFileCallback"
      /\ wfLog[i].sent[2].data.imgName = wfLog[i].file
      /\ wfLog[i].sent[2].data.path =
           wfLog[i].sent[1].data.urls[MediaKeyPrefix \o wfLog[i].file]
      /\ \A j \in 1..Len(wfLog[i].before) :
           wfLog[i].before[j].command = "asc_setImageUrls" =>
             DOMAIN wfLog[i].before[j].data.urls
               \subseteq DOMAIN wfLog[i].sent[1].data.urls

\* C25: no object URL of a previous document is left unrevoked: every URL
\* minted for a media entry and not revoked belongs to the editor session
\* that is current.
C25_NoUrlOfPreviousDocument ==
  \A url \in mediaUrls : url.doc = edConfig.doc

\* C26: once the editor of a new document has been built, window.editor is
\* that editor and the module's media map holds no entry that a writeFile
\* event of a previous document added.
C26_MediaClearedOnSwitch ==
  edConfig.doc > 1 =>
    /\ evEditor
    /\ \A key \in DOMAIN media : media[key].doc = edConfig.doc

\* the virtual-filesystem protocol on a log of calls: every call of the entry
\* point is made with the params path, directly after the params document
\* was written there, which was directly after the input was written under
\* /working to the path the params document names as its source; and the
\* destination the params document names is read only after that call, and
\* only when it returned 0
ProtocolFollowed(ops) ==
  \A c \in 1..Len(ops) :
    ops[c].op = "ccall" =>
      /\ c >= 3
      /\ ops[c].path = ParamsPath
      /\ ops[c - 1].op = "writeFile" /\ ops[c - 1].path = ParamsPath
      /\ ops[c - 2].op = "writeFile"
      /\ SubSeq(ops[c - 2].path, 1, Len(S_working)) = S_working
      /\ ops[c - 2].path = ops[c - 1].out.from
      /\ \A i \in 1..Len(ops) :
           (ops[i].op = "readFile" /\ ops[i].path = ops[c - 1].out.to)
             => (i > c /\ ops[c].out = 0)

StepsOf(h, step) == {i \in 1..Len(hdoLog[h]) : hdoLog[h][i] = step}

\* C22: a handleDocumentOperation call that has succeeded, for a new document
\* or for a file, made exactly one createEditorInstance call, made it directly
\* after the template or the conversion result was obtained, and that call
\* has completed.
C22_OneCreateAfterPayload ==
  \A h \in Ops :
    hdoPc[h] = "done" =>
      /\ Cardinality(StepsOf(h, "createEditorInstance")) = 1
      /\ \A i \in StepsOf(h, "createEditorInstance") :
           i > 1 /\ hdoLog[h][i - 1] = (IF hdoIn[h].isNew THEN "emptyBin"
                                        ELSE "documentData")
      /\ hdoCreate[h] # 0
      /\ pc[hdoCreate[h]] = "done"
      /\ \A g \in Ops \ {h} : hdoCreate[g] # hdoCreate[h]
      /\ Cardinality(IssuedCalls) = Cardinality({g \in Ops : hdoCreate[g] # 0})

\* C22 witness: a new document was created and then a file was opened
C22_Witness ==
  /\ hdoPc[1] = "done" /\ hdoIn[1].isNew
  /\ hdoPc[2] = "done" /\ ~hdoIn[2].isNew
  /\ windowEditor = hdoCreate[2]

\* C23: a handleDocumentOperation call that meets a failure (no template for
\* a new document, no file object, a failed conversion, a failed
\* createEditorInstance) ends failed: it has shown the error once and
\* rethrown it, and shows nothing more afterwards; and the step in which a
\* call fails without having called createEditorInstance leaves the
\* operation queue and the editor as they were.
C23_FailureSurfacedOnce ==
  [][\A h \in Ops :
       /\ hdoPc'[h] # "idle" =>
            ((\/ hdoIn'[h].isNew /\ ~hdoIn'[h].hasTemplate
              \/ ~hdoIn'[h].isNew /\ ~hdoIn'[h].hasFile)
               => (hdoPc'[h] = "failed" /\ hdoCreate'[h] = 0))
       /\ (hdoPc[h] = "convert" /\ hdoPc'[h] # "convert")
            => (hdoPc'[h] = "failed") = (hdoCreate'[h] = 0)
       /\ (hdoPc[h] = "create" /\ hdoPc'[h] # "create")
            => (hdoPc'[h] = "failed") = (pc[hdoCreate[h]] = "failed")
       /\ (hdoPc'[h] = "failed" /\ hdoPc[h] # "failed") =>
            /\ Cardinality({i \in 1..Len(hdoLog'[h]) : hdoLog'[h][i] = "alert"}) = 1
            /\ hdoLog'[h][Len(hdoLog'[h])] = "throw"
            /\ hdoCreate'[h] = 0 => UNCHANGED editorVars
       /\ hdoPc[h] = "failed" => (hdoPc'[h] = "failed" /\ hdoLog'[h] = hdoLog[h])
    ]_vars

\* C23 witness: while the editor of an earlier call is shown, a call failed
\* before its create step
C23_Witness ==
  /\ hdoPc[1] = "done"
  /\ hdoPc[2] = "failed" /\ hdoCreate[2] = 0
  /\ windowEditor = hdoCreate[1]

UserVisibleOps ==
  {i \in 1..Len(saveOps) : saveOps[i].op \in {"download", "write", "message.success"}}

\* C24: when the user cancels the save picker the save is a no-op and not an
\* error: nothing is written, nothing is downloaded, no success message is
\* shown, and the conversion and handleSaveDocument have completed without
\* an error.
C24_CancelIsNoOp ==
  persist = "cancelled" =>
    /\ UserVisibleOps = {}
    /\ savePc = "done"
    /\ saveError = NoError

\* C24 witness: a save with data went through the picker, which was cancelled
C24_Witness ==
  /\ persist = "cancelled"
  /\ saveEvent.hasData
  /\ hasPicker
  /\ saveResult.fileName # <<>>

\* C29: whatever loadScript() and initialize() calls are made, overlapping or
\* not, at most one script element for the converter is appended to the page.
C29_ScriptAppendedOnce ==
  scriptAppends <= 1

\* C30: the runtime-ready signal is not lost: once it has fired, no boot is
\* left waiting for it behind a callback registered after it fired (such a
\* boot can only end in the initialization timeout).
C30_ReadySignalNotLost ==
  runtimeFired => \A b \in Boots : boot[b] # "waitReady"

\* C36: destroyEditor is invoked at most once on any editor instance, whatever
\* the sequence of CLOSE_EDITOR messages and createEditorInstance calls.
C36_DestroyedAtMostOnce ==
  \A i \in Calls : destroyCalls[i] <= 1

\* the orders in which one operation body may go through its steps
BodyOrders ==
  { <<"removeChildren", "new DocEditor">>,
    <<"destroyEditor", "window.editor = undefined", "removeChildren", "new DocEditor">>,
    <<"destroyEditor", "console.warn", "window.editor = undefined", "removeChildren",
      "new DocEditor">> }

IsPrefix(s, t) == Len(s) <= Len(t) /\ \A n \in 1..Len(s) : s[n] = t[n]

\* C31: within one createEditorInstance operation the steps are, in order:
\* destroy the prior editor if there is one, clear the global reference, remove
\* the children of the container, construct the new instance; a destroyEditor
\* that throws is swallowed (a warning), the reference is cleared all the same
\* and the constructor is still called. The step that clears the reference
\* leaves window.editor undefined, and a constructor that returns leaves the
\* new instance in it.
C31_BodyOrder ==
  /\ [](\A c \in Calls :
          /\ \E order \in BodyOrders : IsPrefix(ceiLog[c], order)
          /\ ran[c] => ceiLog[c] # <<>>
          /\ (ran[c] /\ pc[c] \in {"settle", "done", "failed"}) => ceiLog[c] \in BodyOrders)
  /\ [][\A c \in Calls :
          /\ (ceiLog'[c] # ceiLog[c] /\ Len(ceiLog'[c]) >= 2
              /\ ceiLog'[c][Len(ceiLog'[c]) - 1] = "window.editor = undefined")
               => windowEditor' = 0
          /\ (ceiLog'[c] # ceiLog[c] /\ ceiLog'[c][Len(ceiLog'[c])] = "new DocEditor")
               => (windowEditor' = c \/ (opResult'[c] = "throw" /\ UNCHANGED windowEditor))]_vars

\* a body whose destroyEditor threw went on to construct its instance
C31_Witness ==
  \E c \in Calls :
    /\ constructed[c]
    /\ Len(ceiLog[c]) = 5 /\ ceiLog[c][2] = "console.warn"

\* C32: the commands of an instance's onAppReady go to that instance:
\* asc_setImageUrls (if the config has media) and then asc_openDocument, both of
\* the config the instance was created with; no instance receives the payload of
\* another config, and an instance whose onAppReady has fired has received its
\* asc_openDocument.
C32_ReadyCommandsToOwnInstance ==
  \A i \in Calls :
    /\ \A n \in 1..Len(received[i]) : received[i][n].config = i
    /\ appReady[i] => received[i] = ReadyCommands(i)
    /\ ~appReady[i] => received[i] = <<>>

\* C33: when a save event raised by the live editor is handled, the file name
\* handleSaveDocument reads is the file name of the document that editor
\* shows, and so are the CSV override decision and the target, also when an
\* open or create of another document has tracked that document and has not
\* yet replaced the editor.
C33_SaveNamesShownDocument ==
  (evEditor /\ saveEvent.hasData /\ savePc # "idle") =>
    /\ saveEvent.fileName = shown.fileName
    /\ saveTarget = TargetFormat(shown.fileName, saveEvent.outputformat)

\* C34: a bin-to-document conversion that fails while a save event is handled
\* makes handleSaveDocument reject with that error (wrapped once by the
\* conversion) and no asc_onSaveCallback is sent; a save event without data
\* starts no conversion and produces no file, and is acknowledged with
\* asc_onSaveCallback err_code 0.
C34_FailedSaveNotAcknowledged ==
  /\ \A n \in 1..Len(saveOps) :
       (saveOps[n].op = "ccall" /\ saveOps[n].out # 0) =>
         /\ savePc = "failed"
         /\ saveError.code = saveOps[n].out
         /\ saveError.wrappedBy = <<"Bin to document conversion failed">>
  /\ savePc = "failed" =>
       /\ saveError # NoError
       /\ \A n \in 1..Len(commands) : commands[n].command # "asc_onSaveCallback"
       /\ saveResult.fileName = <<>>
  /\ (savePc = "done" /\ ~saveEvent.hasData) =>
       /\ saveOps = <<>>
       /\ persist = "none"
       /\ evEditor => commands = <<SaveCallback>>

\* C34 witness: the converter returned a non-zero code for the save of a live
\* editor
C34_Witness ==
  /\ evEditor
  /\ savePc = "failed"
  /\ saveError.code # 0
  /\ commands = <<>>

\* C35: for a tracked file name that does not end in .csv the save target is
\* the name the inverse format table gives for the output format code the
\* editor reported; for a code that the table does not hold the target is
\* undefined and the conversion falls back to DOCX, whatever document is open:
\* the file it returns is named <base>.docx.
C35_TargetFromInverseTable ==
  (saveEvent.hasData /\ savePc # "idle" /\ ~EndsWithCsv(saveEvent.fileName)) =>
    IF saveEvent.outputformat \in DOMAIN c_oAscFileType2
      THEN /\ saveTarget = c_oAscFileType2[saveEvent.outputformat]
           /\ saveResult.fileName # <<>> =>
                saveResult.fileName =
                  StripExtension(sanitizeFileName(saveEvent.fileName)) \o <<".">> \o
                  ToLowerCase(c_oAscFileType2[saveEvent.outputformat])
      ELSE /\ saveTarget = <<>>
           /\ saveResult.fileName # <<>> =>
                saveResult.fileName =
                  StripExtension(sanitizeFileName(saveEvent.fileName)) \o <<".">> \o S_docx

\* C35 witness: a workbook saved with a code the table does not hold came out
\* as a .docx file
C35_Witness ==
  /\ savePc = "done"
  /\ saveEvent.outputformat = 1
  /\ saveEvent.fileName = <<"a", ".">> \o S_xlsx
  /\ saveResult.fileName = <<"a", ".">> \o S_docx

\* C38: the exported getDocumentType agrees with the converter's extension
\* table: for every extension the converter maps to word, cell or slide the
\* exported function returns the same type, and for every extension for which
\* it returns null the converter raises the unsupported-extension error.
C38_LookupsAgree ==
  (dtOut # "pending" /\ dtFacade # "pending") =>
    /\ dtOut \in DocumentTypes => dtFacade = dtOut
    /\ dtFacade = "null" => dtOut = "throw"

\* C39: an empty CSV file is rejected by convertDocument with a conversion
\* error before the CSV library is loaded, before anything is written to the
\* virtual filesystem and before the converter is invoked.
C39_EmptyCsvRejectedFirst ==
  (/\ docEmpty
   /\ ToLowerCase(FileExt(docName, docMimeExt)) = S_csv
   /\ docPc \notin {"called", "arrayBuffer"}) =>
    /\ docPc = "failed"
    /\ docError.message = "CSV file is empty"
    /\ docError.wrappedBy = <<"Document conversion failed">>
    /\ docOps = <<>>
    /\ docResult = NoResult

\* C39 witness: the conversion of an empty CSV file, named by its MIME type or
\* by its file name, has failed
C39_Witness ==
  /\ docEmpty
  /\ docPc = "failed"
  /\ docError.message = "CSV file is empty"

\* the chunks of transfer t, in order
TransferChunks(t) == [k \in 1..TotalChunks |-> [transfer |-> t, chunkIndex |-> k]]

\* C37: for every chunked transfer of N chunks an open (and with it
\* handleDocumentOperation) is started exactly once, when its N-th chunk
\* arrives and with its N chunks, and the buffer holds no chunk of an earlier
\* transfer when a chunk of the next one is handled; also when an open fails
\* and when messages arrive while an open is in progress.
C37_OneOpenPerTransfer ==
  /\ \A h \in 1..Len(opens) :
       \E t \in 1..MaxTransfers : opens[h].chunks = TransferChunks(t)
  /\ \A t \in 1..MaxTransfers :
       Cardinality({h \in 1..Len(opens) :
                      opens[h].chunks[Len(opens[h].chunks)].transfer = t})
         = (IF delivered[t] = TotalChunks THEN 1 ELSE 0)
  /\ \A i, j \in 1..Len(fileChunks) : fileChunks[i].transfer = fileChunks[j].transfer

====
